---- MODULE Spec2Model ----
(***************************************************************************)
(* grokicad: the Result Cache (tables schematics and parts, accessed by    *)
(* src/database/src/lib.rs), the request handlers of                       *)
(* src/backend/src/controllers that probe, fill and invalidate it, the     *)
(* repository mirror and the distillation workspaces.                      *)
(*                                                                         *)
(* Spec      the storage layer call by call: every function of lib.rs and  *)
(*           the clear_cache handler as one atomic step of the database.   *)
(* SpecTx    the storage layer statement by statement: store_schematic as  *)
(*           a transaction of several statements, retrieve_schematic as    *)
(*           two queries.                                                  *)
(* SpecFlow  the handlers distill_schematics, init_repo, selection_stream  *)
(*           and clear_cache, one step per await point.                    *)
(* SpecMirror   the mirror layer (services/git.rs and get_git_repo of      *)
(*           main.rs) and distill_repo_schematics, call by call.           *)
(* SpecAcquire  get_repo_with_options of two tasks, step by step.          *)
(* SpecWork  distill_repo_schematics of two tasks, step by step.           *)
(* SpecPath  get_cache_path over a set of identities.                      *)
(* SpecScan  the scanner and the extractor applied to trees.               *)
(* SpecWorkLive  SpecWork with the fairness its scheduling gives.          *)
(* SpecRepair  the mirror layer over damaged mirrors and renamed branches. *)
(* SpecHooked  distill_schematics and init_repo over rows the hook stored. *)
(* SpecSnapshot  store_schematic transactions against retrieve_schematic.  *)
(* SpecHook  update_repo, one commit per step, against another producer.   *)
(* SpecStream  chat_completion_stream over the chunks of a body, and the   *)
(*           SSE stream of chat_stream and selection_stream.               *)
(* SpecStreamLive  SpecStream with the fairness its polling gives.         *)
(* The call variable also holds the streamed completion in flight.         *)
(***************************************************************************)
EXTENDS Naturals, Integers, Sequences, FiniteSets, TLC

VARIABLES
    schematics,  \* committed rows of table schematics
    parts,       \* committed rows of table parts
    next_id,     \* the sequence behind schematics.id
    tx,          \* per writer: the store_schematic transaction in flight
    rd,          \* the retrieve_schematic call in flight
    last,        \* the last completed storage call and what it returned
    acked,       \* the documents store_distilled_json has stored and nothing
                 \* has since replaced or invalidated: {[repo_url, commit_hash, doc]}
    req,         \* per request slot: the handler in flight, its locals, its response
    remote,      \* the commit the remote's default branch points to
    mirror,      \* HEAD of the local mirror of the repository, NULL when absent
    origin,      \* the remote repository: its default branch and branch tips
    cache,       \* per mirror directory: NoDir when absent, else the git
                 \* directory (HEAD, remote-tracking refs, what it has held)
    acq,         \* per task: the acquire in flight and its position
    ws,          \* per workspace directory: NoDir when absent, else its files
    job,         \* per task: the distillation attempt in flight
    call         \* the last completed call of the mirror layer and its result

vars == <<schematics, parts, next_id, tx, rd, last, acked, req, remote, mirror,
          origin, cache, acq, ws, job, call>>
\* The variables of the mirror and the workspaces, and those of the cache.
mirrorvars == <<origin, cache, acq, ws, job, call>>
cachevars == <<schematics, parts, next_id, tx, rd, last, acked, req, remote, mirror>>
flowvars == <<req, remote, mirror, mirrorvars>>

(***************************************************************************)
(* Bounds and input domains.                                               *)
(***************************************************************************)
\* Rows the sequence may hand out ids for.
MaxId == 3

\* SQL NULL / Option::None.
NULL == "NULL"

RepoSlugs == {"acme/board", "acme/psu"}
\* The repositories whose commits the storage-layer clients store under; the
\* other one is a repository the cache has never seen.
StoredSlugs == {"acme/board"}
Commits == {"c1", "c2"}
Docs == {"d1", "d2"}
Writers == {"w1", "w2"}

\* format!("https://github.com/{}.git", req.repo)
RepoUrl(slug) == "https://github.com/" \o slug \o ".git"
RepoUrls == {RepoUrl(s) : s \in RepoSlugs}
StoredUrls == {RepoUrl(s) : s \in StoredSlugs}

NoParts == [u \in {} |-> NULL]

\* The argument lists store_schematic is called with. HookInput is the call
\* of generate_and_store_overview: image, change_summary and project_overview
\* absent, no parts. The others supply other subsets of the columns.
HookInput ==
    [commit_date |-> "t1", git_message |-> "m1", schematic_image |-> NULL,
     change_summary |-> NULL, project_overview |-> NULL,
     blurb |-> "b1", description |-> "desc1", parts |-> NoParts]
ImageInput ==
    [commit_date |-> NULL, git_message |-> NULL, schematic_image |-> "img1",
     change_summary |-> NULL, project_overview |-> NULL,
     blurb |-> NULL, description |-> NULL,
     parts |-> [u \in {"u1"} |-> [blurb |-> "pb1", properties |-> "props1"]]]
SchematicInputs == {HookInput, ImageInput}

\* The columns store_schematic binds, in the order of its parameter list.
SchematicColumns ==
    {"commit_date", "git_message", "schematic_image", "change_summary",
     "project_overview", "blurb", "description"}

(***************************************************************************)
(* The SQL statements of lib.rs as functions of the table contents.        *)
(***************************************************************************)
RowsAt(rows, r, c) == {row \in rows : row.repo_url = r /\ row.commit_hash = c}

\* The upsert with ON CONFLICT ... DO NOTHING: an existing row is kept.
UpsertSchematic_DoNothing(rows, id, r, c, a) ==
    IF RowsAt(rows, r, c) = {}
    THEN rows \cup
         {[id |-> id, repo_url |-> r, commit_hash |-> c,
           commit_date |-> a.commit_date, git_message |-> a.git_message,
           schematic_image |-> a.schematic_image,
           change_summary |-> a.change_summary,
           project_overview |-> a.project_overview,
           blurb |-> a.blurb, description |-> a.description,
           distilled_json |-> NULL]}
    ELSE rows

\* The upsert that replaces the whole row on conflict: the columns it does
\* not bind fall back to their defaults.
UpsertSchematic_ReplaceRow(rows, id, r, c, a) ==
    {row \in rows : ~(row.repo_url = r /\ row.commit_hash = c)}
    \cup
    {[id |-> IF RowsAt(rows, r, c) = {} THEN id
             ELSE (CHOOSE row \in RowsAt(rows, r, c) : TRUE).id,
      repo_url |-> r, commit_hash |-> c,
      commit_date |-> a.commit_date, git_message |-> a.git_message,
      schematic_image |-> a.schematic_image,
      change_summary |-> a.change_summary,
      project_overview |-> a.project_overview,
      blurb |-> a.blurb, description |-> a.description,
      distilled_json |-> NULL]}

\* INSERT INTO schematics (...9 columns...) ON CONFLICT (repo_url, commit_hash)
\* DO UPDATE SET <the 7 bound columns> = EXCLUDED.<column>
UpsertSchematic(rows, id, r, c, a) ==
    IF RowsAt(rows, r, c) = {}
    THEN rows \cup
         {[id |-> id, repo_url |-> r, commit_hash |-> c,
           commit_date |-> a.commit_date, git_message |-> a.git_message,
           schematic_image |-> a.schematic_image,
           change_summary |-> a.change_summary,
           project_overview |-> a.project_overview,
           blurb |-> a.blurb, description |-> a.description,
           distilled_json |-> NULL]}
    ELSE {IF row \in RowsAt(rows, r, c)
          THEN [row EXCEPT !.commit_date = a.commit_date,
                           !.git_message = a.git_message,
                           !.schematic_image = a.schematic_image,
                           !.change_summary = a.change_summary,
                           !.project_overview = a.project_overview,
                           !.blurb = a.blurb,
                           !.description = a.description]
          ELSE row : row \in rows}

\* RETURNING id: the id of the row the upsert inserted or updated.
ReturningId(rows, id, r, c) ==
    IF RowsAt(rows, r, c) = {} THEN id
    ELSE (CHOOSE row \in RowsAt(rows, r, c) : TRUE).id

\* INSERT INTO parts (...) ON CONFLICT (schematic_id, part_uuid) DO UPDATE SET
\* blurb = EXCLUDED.blurb, properties = EXCLUDED.properties
UpsertPart(ps, sid, u, p) ==
    {q \in ps : ~(q.schematic_id = sid /\ q.part_uuid = u)}
    \cup {[schematic_id |-> sid, part_uuid |-> u,
           blurb |-> p.blurb, properties |-> p.properties]}

RECURSIVE UpsertParts(_, _, _, _)
UpsertParts(ps, sid, us, pm) ==
    IF us = {} THEN ps
    ELSE LET u == CHOOSE v \in us : TRUE
         IN UpsertParts(UpsertPart(ps, sid, u, pm[u]), sid, us \ {u}, pm)


\* The same statement with ON CONFLICT left out and no unique index to stop it.
UpsertDistilledJson_NoConflict(rows, id, r, c, d) ==
    rows \cup
    {[id |-> id, repo_url |-> r, commit_hash |-> c,
      commit_date |-> NULL, git_message |-> NULL, schematic_image |-> NULL,
      change_summary |-> NULL, project_overview |-> NULL,
      blurb |-> NULL, description |-> NULL, distilled_json |-> d]}

\* ON CONFLICT ... DO NOTHING in place of DO UPDATE.
UpsertDistilledJson_DoNothing(rows, id, r, c, d) ==
    IF RowsAt(rows, r, c) = {}
    THEN UpsertDistilledJson_NoConflict(rows, id, r, c, d)
    ELSE rows

\* A full-row replace on conflict in place of the one-column update.
UpsertDistilledJson_Replace(rows, id, r, c, d) ==
    {row \in rows : ~(row.repo_url = r /\ row.commit_hash = c)}
    \cup
    {[id |-> ReturningId(rows, id, r, c), repo_url |-> r, commit_hash |-> c,
      commit_date |-> NULL, git_message |-> NULL, schematic_image |-> NULL,
      change_summary |-> NULL, project_overview |-> NULL,
      blurb |-> NULL, description |-> NULL, distilled_json |-> d]}

\* INSERT INTO schematics (repo_url, commit_hash, distilled_json) ON CONFLICT
\* (repo_url, commit_hash) DO UPDATE SET distilled_json = EXCLUDED.distilled_json
UpsertDistilledJson(rows, id, r, c, d) ==
    IF RowsAt(rows, r, c) = {}
    THEN rows \cup
         {[id |-> id, repo_url |-> r, commit_hash |-> c,
           commit_date |-> NULL, git_message |-> NULL, schematic_image |-> NULL,
           change_summary |-> NULL, project_overview |-> NULL,
           blurb |-> NULL, description |-> NULL, distilled_json |-> d]}
    ELSE {IF row \in RowsAt(rows, r, c)
          THEN [row EXCEPT !.distilled_json = d]
          ELSE row : row \in rows}

\* A SELECT that reads another column of the row.
SelectDistilledJson_WrongColumn(rows, r, c) ==
    IF RowsAt(rows, r, c) = {} THEN NULL
    ELSE (CHOOSE row \in RowsAt(rows, r, c) : TRUE).blurb

\* A probe for which a row without a document is a hit.
SelectDistilledJson_RowIsHit(rows, r, c) ==
    IF RowsAt(rows, r, c) = {} THEN NULL
    ELSE IF (CHOOSE row \in RowsAt(rows, r, c) : TRUE).distilled_json = NULL
    THEN "d1"
    ELSE (CHOOSE row \in RowsAt(rows, r, c) : TRUE).distilled_json

\* SELECT distilled_json FROM schematics WHERE repo_url = $1 AND commit_hash = $2
\* with fetch_optional and try_get: None for no row and for a NULL column.
SelectDistilledJson(rows, r, c) ==
    IF RowsAt(rows, r, c) = {} THEN NULL
    ELSE (CHOOSE row \in RowsAt(rows, r, c) : TRUE).distilled_json

\* fetch_one in place of fetch_optional: no row is the error RowNotFound.
RetrieveDistilledJson_FetchOne(rows, r, c) ==
    IF RowsAt(rows, r, c) = {} THEN [ok |-> FALSE, value |-> NULL]
    ELSE [ok |-> TRUE, value |-> SelectDistilledJson(rows, r, c)]

\* What retrieve_distilled_json returns once its query has run:
\* Some(row) => Ok(row.try_get(..)), None => Ok(None).
RetrieveDistilledJson(rows, r, c) ==
    [ok |-> TRUE, value |-> SelectDistilledJson(rows, r, c)]

\* SELECT part_uuid, blurb, properties FROM parts WHERE schematic_id = $1,
\* collected into the HashMap of FullSchematic.
SelectParts(ps, sid) ==
    [u \in {q.part_uuid : q \in {x \in ps : x.schematic_id = sid}} |->
        LET q == CHOOSE x \in ps : x.schematic_id = sid /\ x.part_uuid = u
        IN [part_uuid |-> u, blurb |-> q.blurb, properties |-> q.properties]]

\* The FullSchematic retrieve_schematic builds from a row and its parts.
FullSchematic(sch, pm) ==
    [repo_url |-> sch.repo_url, commit_hash |-> sch.commit_hash,
     commit_date |-> sch.commit_date, git_message |-> sch.git_message,
     schematic_image |-> sch.schematic_image,
     change_summary |-> sch.change_summary,
     project_overview |-> sch.project_overview,
     blurb |-> sch.blurb, description |-> sch.description,
     distilled_json |-> sch.distilled_json, parts |-> pm]

\* clear_distilled_json(pool, repo_url, commit): the rows it removes. With a
\* commit, the row of that key; without, every row of the repository.
ClearedRows(rows, r, copt) ==
    IF copt = NULL THEN {row \in rows : row.repo_url = r}
    ELSE RowsAt(rows, r, copt)

\* The parts left once the rows `gone` are deleted: the parts of a deleted
\* row are taken to go with it.
PartsWithout(ps, gone) ==
    {q \in ps : q.schematic_id \notin {row.id : row \in gone}}

\* acked after a successful store_distilled_json(r, c, d).
AckStore(ak, r, c, d) ==
    {a \in ak : ~(a.repo_url = r /\ a.commit_hash = c)}
    \cup {[repo_url |-> r, commit_hash |-> c, doc |-> d]}

\* acked after an invalidation of (r, copt).
AckClear(ak, r, copt) ==
    {a \in ak : ~(a.repo_url = r /\ (copt = NULL \/ a.commit_hash = copt))}

\* s1 carries the request whose response is looked at, and may carry any
\* request; s2 carries concurrent traffic: further distill requests and
\* cache clears, whose responses are not kept.
Slots == {"s1", "s2"}
Observed == {"s1"}

(***************************************************************************)
(* Storage layer state.                                                    *)
(***************************************************************************)
IdleTx == [pc |-> "idle"]
IdleRd == [pc |-> "idle"]
NoCall == [op |-> "none"]
IdleReq == [pc |-> "idle"]

\* A row lock: the key a store_schematic transaction has written and not yet
\* committed. PostgreSQL makes every other writer of that key wait.
Locked(r, c) ==
    \E w \in Writers :
        tx[w].pc # "idle" /\ tx[w].repo_url = r /\ tx[w].commit_hash = c

LockedRepo(r) == \E c \in Commits : Locked(r, c)

(***************************************************************************)
(* The mirror layer (src/backend/src/services/git.rs, get_git_repo of      *)
(* src/backend/src/main.rs) and the workspaces of services/distill.rs.     *)
(*                                                                         *)
(* The remote repository: c0 is the root, c1 and b1 are its children on    *)
(* the branches main and dev, m2 merges dev into main.                     *)
(***************************************************************************)
Branches == {"main", "master", "dev"}
GitCommits == {"c0", "c1", "b1", "m2"}

\* commit.parents()
Parents(c) ==
    CASE c = "c0" -> {}
      [] c = "c1" -> {"c0"}
      [] c = "b1" -> {"c0"}
      [] c = "m2" -> {"c1", "b1"}

\* commit.time().seconds()
CommitTime(c) ==
    CASE c = "c0" -> 1
      [] c = "b1" -> 2
      [] c = "c1" -> 3
      [] c = "m2" -> 4

\* The commits a walk pushed at c visits.
RECURSIVE Reach(_)
Reach(c) == {c} \cup UNION {Reach(p) : p \in Parents(c)}

\* The identity the mirror is acquired for, character by character.
MirrorSlug == <<"a", "/", "b">>

\* repo_slug.replace('/', "-")
Replace(s) == [i \in 1..Len(s) |-> IF s[i] = "/" THEN "-" ELSE s[i]]

\* std::env::temp_dir().join(format!("kicad-cache-{}", ..)): the path, its
\* fixed components first.
get_cache_path(repo_slug) == <<"/tmp/", "kicad-cache-">> \o Replace(repo_slug)

\* The directory of the mirror.
MirrorPath == get_cache_path(MirrorSlug)

\* A directory that does not exist; cache_path.exists().
NoDir == [exists |-> FALSE]
Exists(d) == d.exists

\* The directory while a clone is writing it.
PartialDir == [exists |-> TRUE, partial |-> TRUE]
\* Whether Repository::open finds a repository in the directory.
IsRepo(d) == Exists(d) /\ d # PartialDir

\* The directory of a clone that has initialised the repository and set up
\* the remote and has fetched nothing yet: no reference, HEAD unborn.
UnbornDir ==
    [exists |-> TRUE, head |-> NULL, detached |-> FALSE, origin_head |-> NULL,
     tracking |-> [b \in Branches |-> NULL]]

\* The commit strings a distillation is asked for: HEAD, and a commit whose
\* tree holds no .kicad_sch file.
WorkCommits == {"HEAD", "c0"}

\* temp_dir().join("kicad-distill").join(repo_slug.replace('/', "-"))
\*           .join(commit_hash)
workspace_path(repo_slug, commit_hash) ==
    <<"/tmp/", "kicad-distill/">> \o Replace(repo_slug) \o <<"/", commit_hash>>

Tasks == {"t1", "t2"}
IdleAcq == [pc |-> "idle"]
IdleJob == [pc |-> "idle"]

InitMirror ==
    /\ origin = [default |-> "main",
                 tips |-> [main |-> "c1", master |-> NULL, dev |-> "b1"]]
    /\ cache = [p \in {MirrorPath} |-> NoDir]
    /\ acq = [t \in Tasks |-> IdleAcq]
    /\ ws = [k \in {workspace_path(MirrorSlug, c) : c \in WorkCommits} |-> NoDir]
    /\ job = [t \in Tasks |-> IdleJob]
    /\ call = NoCall

Init ==
    /\ schematics = {}
    /\ parts = {}
    /\ next_id = 1
    /\ tx = [w \in Writers |-> IdleTx]
    /\ rd = IdleRd
    /\ last = NoCall
    /\ acked = {}
    /\ req = [s \in Slots |-> IdleReq]
    /\ remote = "c1"
    /\ mirror = NULL
    /\ InitMirror

\* Whether the upsert of key (r, c) can run: an insert draws an id.
CanUpsert(r, c) == RowsAt(schematics, r, c) # {} \/ next_id <= MaxId

NextIdAfter(r, c) ==
    IF RowsAt(schematics, r, c) = {} THEN next_id + 1 ELSE next_id

(***************************************************************************)
(* store_schematic: begin, the schematic upsert, one upsert per part in    *)
(* HashMap order, commit. Any failed statement returns through `?` and     *)
(* drops the transaction, which rolls it back.                             *)
(***************************************************************************)
store_schematic_begin(w, r, c, a) ==
    /\ tx[w].pc = "idle"
    /\ ~Locked(r, c)
    /\ UNCHANGED <<schematics, parts, rd, acked, flowvars>>
    /\ \/ /\ CanUpsert(r, c)
          /\ tx' = [tx EXCEPT ![w] =
                      [pc |-> "parts", repo_url |-> r, commit_hash |-> c,
                       args |-> a,
                       schematic_id |-> ReturningId(schematics, next_id, r, c),
                       todo |-> DOMAIN a.parts, written |-> {}]]
          /\ next_id' = NextIdAfter(r, c)
          /\ UNCHANGED last
       \/ /\ UNCHANGED <<tx, next_id>>
          /\ last' = [op |-> "store_schematic", repo_url |-> r,
                      commit_hash |-> c, ok |-> FALSE, value |-> NULL,
                      stage |-> "schematic"]

\* A store_schematic whose part upserts run on the pool, outside the
\* transaction: each is visible as soon as it has run.
store_schematic_part_OnPool(w) ==
    /\ tx[w].pc = "parts"
    /\ tx[w].todo # {}
    /\ UNCHANGED <<schematics, next_id, rd, acked, flowvars>>
    /\ \/ /\ \E u \in tx[w].todo :
                /\ tx' = [tx EXCEPT ![w].todo = @ \ {u},
                                    ![w].written = @ \cup {u}]
                /\ parts' = UpsertPart(parts, tx[w].schematic_id, u,
                                       tx[w].args.parts[u])
          /\ UNCHANGED last
       \/ /\ tx' = [tx EXCEPT ![w] = IdleTx]
          /\ UNCHANGED parts
          /\ last' = [op |-> "store_schematic", repo_url |-> tx[w].repo_url,
                      commit_hash |-> tx[w].commit_hash, ok |-> FALSE,
                      value |-> NULL, stage |-> "part"]

store_schematic_part(w) ==
    /\ tx[w].pc = "parts"
    /\ tx[w].todo # {}
    /\ UNCHANGED <<schematics, parts, next_id, rd, acked, flowvars>>
    /\ \/ /\ \E u \in tx[w].todo :
                tx' = [tx EXCEPT ![w].todo = @ \ {u},
                                 ![w].written = @ \cup {u}]
          /\ UNCHANGED last
       \/ /\ tx' = [tx EXCEPT ![w] = IdleTx]
          /\ last' = [op |-> "store_schematic", repo_url |-> tx[w].repo_url,
                      commit_hash |-> tx[w].commit_hash, ok |-> FALSE,
                      value |-> NULL, stage |-> "part"]

store_schematic_commit(w) ==
    /\ tx[w].pc = "parts"
    /\ tx[w].todo = {}
    /\ tx' = [tx EXCEPT ![w] = IdleTx]
    /\ UNCHANGED <<next_id, rd, acked, flowvars>>
    /\ \/ /\ schematics' = UpsertSchematic(schematics, tx[w].schematic_id,
                               tx[w].repo_url, tx[w].commit_hash, tx[w].args)
          /\ parts' = UpsertParts(parts, tx[w].schematic_id, tx[w].written,
                                  tx[w].args.parts)
          /\ last' = [op |-> "store_schematic", repo_url |-> tx[w].repo_url,
                      commit_hash |-> tx[w].commit_hash, ok |-> TRUE,
                      value |-> tx[w].schematic_id, args |-> tx[w].args]
       \/ /\ UNCHANGED <<schematics, parts>>
          /\ last' = [op |-> "store_schematic", repo_url |-> tx[w].repo_url,
                      commit_hash |-> tx[w].commit_hash, ok |-> FALSE,
                      value |-> NULL, stage |-> "commit"]

(***************************************************************************)
(* store_schematic seen from outside: the transaction as one step, at its  *)
(* commit. A failed statement rolls everything back; the id the upsert     *)
(* drew from the sequence is not given back.                               *)
(***************************************************************************)
store_schematic_ok(r, c, a) ==
    /\ CanUpsert(r, c)
    /\ LET sid == ReturningId(schematics, next_id, r, c)
       IN /\ schematics' = UpsertSchematic(schematics, next_id, r, c, a)
          /\ parts' = UpsertParts(parts, sid, DOMAIN a.parts, a.parts)
          /\ last' = [op |-> "store_schematic", repo_url |-> r,
                      commit_hash |-> c, ok |-> TRUE, value |-> sid,
                      args |-> a]
    /\ next_id' = NextIdAfter(r, c)
    /\ UNCHANGED <<tx, rd, acked>>

store_schematic_err(r, c, a) ==
    /\ last' = [op |-> "store_schematic", repo_url |-> r,
                commit_hash |-> c, ok |-> FALSE, value |-> NULL]
    /\ \/ next_id' = next_id
       \/ CanUpsert(r, c) /\ next_id' = NextIdAfter(r, c)
    /\ UNCHANGED <<schematics, parts, tx, rd, acked>>

store_schematic(r, c, a) ==
    /\ \/ store_schematic_ok(r, c, a)
       \/ store_schematic_err(r, c, a)
    /\ UNCHANGED flowvars

(***************************************************************************)
(* store_distilled_json: one statement, run on the pool (autocommit).      *)
(***************************************************************************)
store_distilled_json_ok(r, c, d) ==
    /\ ~Locked(r, c)
    /\ CanUpsert(r, c)
    /\ schematics' = UpsertDistilledJson(schematics, next_id, r, c, d)
    /\ next_id' = NextIdAfter(r, c)
    /\ last' = [op |-> "store_distilled_json", repo_url |-> r,
                commit_hash |-> c, ok |-> TRUE, value |-> d]
    /\ acked' = AckStore(acked, r, c, d)
    /\ UNCHANGED <<parts, tx, rd>>

store_distilled_json_err(r, c, d) ==
    /\ last' = [op |-> "store_distilled_json", repo_url |-> r,
                commit_hash |-> c, ok |-> FALSE, value |-> d]
    /\ UNCHANGED <<schematics, parts, next_id, tx, rd, acked>>

store_distilled_json(r, c, d) ==
    /\ \/ store_distilled_json_ok(r, c, d)
       \/ store_distilled_json_err(r, c, d)
    /\ UNCHANGED flowvars

(***************************************************************************)
(* retrieve_distilled_json: one SELECT. fault: the query itself failed     *)
(* (`.await?`), whatever the table holds.                                  *)
(***************************************************************************)
retrieve_distilled_json(r, c) ==
    /\ UNCHANGED <<schematics, parts, next_id, tx, rd, acked, flowvars>>
    /\ \/ last' = [op |-> "retrieve_distilled_json", repo_url |-> r,
                   commit_hash |-> c, fault |-> FALSE,
                   ok |-> RetrieveDistilledJson(schematics, r, c).ok,
                   value |-> RetrieveDistilledJson(schematics, r, c).value]
       \/ last' = [op |-> "retrieve_distilled_json", repo_url |-> r,
                   commit_hash |-> c, fault |-> TRUE, ok |-> FALSE,
                   value |-> NULL]

(***************************************************************************)
(* retrieve_schematic: the row query, then the parts query, on the pool    *)
(* and outside any transaction. parts_then records the parts the row had   *)
(* when the row query ran.                                                 *)
(***************************************************************************)
retrieve_schematic_row(r, c) ==
    /\ rd.pc = "idle"
    /\ UNCHANGED <<schematics, parts, next_id, tx, acked, flowvars>>
    /\ \/ /\ RowsAt(schematics, r, c) = {}
          /\ rd' = IdleRd
          /\ last' = [op |-> "retrieve_schematic", repo_url |-> r,
                      commit_hash |-> c, ok |-> TRUE, value |-> NULL]
       \/ /\ \E sch \in RowsAt(schematics, r, c) :
                rd' = [pc |-> "parts", sch |-> sch,
                       parts_then |-> SelectParts(parts, sch.id)]
          /\ UNCHANGED last
       \/ /\ rd' = IdleRd
          /\ last' = [op |-> "retrieve_schematic", repo_url |-> r,
                      commit_hash |-> c, ok |-> FALSE, value |-> NULL]

retrieve_schematic_parts ==
    /\ rd.pc = "parts"
    /\ rd' = IdleRd
    /\ UNCHANGED <<schematics, parts, next_id, tx, acked, flowvars>>
    /\ \/ last' = [op |-> "retrieve_schematic", repo_url |-> rd.sch.repo_url,
                   commit_hash |-> rd.sch.commit_hash, ok |-> TRUE,
                   value |-> FullSchematic(rd.sch, SelectParts(parts, rd.sch.id))]
       \/ last' = [op |-> "retrieve_schematic", repo_url |-> rd.sch.repo_url,
                   commit_hash |-> rd.sch.commit_hash, ok |-> FALSE,
                   value |-> NULL]

(***************************************************************************)
(* clear_distilled_json: deletes the rows of the key or of the repository  *)
(* (and the parts that belong to them) and returns how many rows it hit.   *)
(***************************************************************************)
clear_distilled_json_ok(r, copt) ==
    /\ IF copt = NULL THEN ~LockedRepo(r) ELSE ~Locked(r, copt)
    /\ LET gone == ClearedRows(schematics, r, copt)
       IN /\ schematics' = schematics \ gone
          /\ parts' = PartsWithout(parts, gone)
          /\ last' = [op |-> "clear_distilled_json", repo_url |-> r,
                      commit_hash |-> copt, ok |-> TRUE,
                      value |-> Cardinality(gone)]
    /\ acked' = AckClear(acked, r, copt)
    /\ UNCHANGED <<next_id, tx, rd>>

clear_distilled_json_err(r, copt) ==
    /\ last' = [op |-> "clear_distilled_json", repo_url |-> r,
                commit_hash |-> copt, ok |-> FALSE, value |-> NULL]
    /\ UNCHANGED <<schematics, parts, next_id, tx, rd, acked>>

clear_distilled_json(r, copt) ==
    /\ \/ clear_distilled_json_ok(r, copt)
       \/ clear_distilled_json_err(r, copt)
    /\ UNCHANGED flowvars

(***************************************************************************)
(* clear_cache: the handler of POST /api/repo/clear-cache, one storage     *)
(* call and the response built from its row count.                         *)
(***************************************************************************)
\* A handler that clears one commit when the request names none.
ClearCacheCommit_Defaulted(copt) == IF copt = NULL THEN "c1" ELSE copt

\* A handler that drops the commit of the request and clears the repository.
ClearCacheCommit_Dropped(copt) == NULL

\* req.commit.as_deref(): the commit clear_cache hands to clear_distilled_json.
ClearCacheCommit(copt) == copt

clear_cache(slug, copt) ==
    /\ UNCHANGED <<next_id, tx, rd, flowvars>>
    /\ LET url == RepoUrl(slug)
           gone == ClearedRows(schematics, url, ClearCacheCommit(copt))
       IN \/ /\ schematics' = schematics \ gone
             /\ parts' = PartsWithout(parts, gone)
             /\ acked' = AckClear(acked, url, ClearCacheCommit(copt))
             /\ last' = [op |-> "clear_cache", repo_url |-> url,
                         commit_hash |-> copt, ok |-> TRUE,
                         value |-> Cardinality(gone),
                         cleared |-> Cardinality(gone) > 0]
          \/ /\ UNCHANGED <<schematics, parts, acked>>
             /\ last' = [op |-> "clear_cache", repo_url |-> url,
                         commit_hash |-> copt, ok |-> FALSE, value |-> NULL,
                         cleared |-> NULL]

\* The cache as earlier requests may have left it: empty, or holding a
\* document for a commit of the repository the clients do not store under.
SeedRow ==
    [id |-> 1, repo_url |-> RepoUrl("acme/psu"), commit_hash |-> "c1",
     commit_date |-> NULL, git_message |-> NULL, schematic_image |-> NULL,
     change_summary |-> NULL, project_overview |-> NULL,
     blurb |-> NULL, description |-> NULL, distilled_json |-> "d1"]

InitSeeded ==
    /\ schematics = {SeedRow}
    /\ parts = {}
    /\ next_id = 2
    /\ tx = [w \in Writers |-> IdleTx]
    /\ rd = IdleRd
    /\ last = NoCall
    /\ acked = {}
    /\ req = [s \in Slots |-> IdleReq]
    /\ remote = "c1"
    /\ mirror = NULL
    /\ InitMirror

Next ==
    \/ \E r \in StoredUrls, c \in Commits, a \in SchematicInputs :
           store_schematic(r, c, a)
    \/ \E r \in StoredUrls, c \in Commits, d \in Docs : store_distilled_json(r, c, d)
    \/ \E r \in RepoUrls, c \in Commits : retrieve_distilled_json(r, c)
    \/ \E slug \in RepoSlugs, copt \in Commits \cup {NULL} : clear_cache(slug, copt)

\* The key the statement-level runs contend for.
TxCommits == {"c1"}

NextTx ==
    \/ \E w \in Writers, r \in StoredUrls, c \in TxCommits, a \in SchematicInputs :
           store_schematic_begin(w, r, c, a)
    \/ \E w \in Writers : store_schematic_part(w)
    \/ \E w \in Writers : store_schematic_commit(w)
    \/ \E r \in StoredUrls, c \in TxCommits, d \in Docs : store_distilled_json(r, c, d)
    \/ \E r \in StoredUrls, c \in TxCommits : retrieve_distilled_json(r, c)
    \/ \E r \in StoredUrls, c \in TxCommits : retrieve_schematic_row(r, c)
    \/ retrieve_schematic_parts
    \/ \E r \in StoredUrls, copt \in TxCommits \cup {NULL} : clear_distilled_json(r, copt)

Spec == (Init \/ InitSeeded) /\ [][Next]_vars

SpecTx == Init /\ [][NextTx]_vars

(***************************************************************************)
(* The repository behind the requests: history c0 <- c1 <- c2. c0 holds no *)
(* .kicad_sch file, c1 adds a/x.kicad_sch, c2 changes it. The remote's     *)
(* default branch is at c1 and may advance to c2.                          *)
(***************************************************************************)
FlowSlug == "acme/board"
\* The commit strings a request may carry: a hash and the ref HEAD.
CommitExprs == {"c0", "HEAD"}

\* The commits a mirror whose HEAD is m holds.
Known(m) == IF m = "c2" THEN {"c0", "c1", "c2"} ELSE {"c0", "c1"}

\* repo.revparse_single(commit_hash), peeled to a commit; NULL: not found.
Revparse(expr, m) ==
    IF expr = "HEAD" THEN m
    ELSE IF expr \in Known(m) THEN expr ELSE NULL

\* The tree walk of get_schematic_files: the .kicad_sch blobs of a commit.
SchematicFilesAt(cid) ==
    IF cid = "c1" THEN {[path |-> "a/x.kicad_sch", content |-> "v1"]}
    ELSE IF cid = "c2" THEN {[path |-> "a/x.kicad_sch", content |-> "v2"]}
    ELSE {}

\* What distill_demo.py prints for a workspace holding these files.
DistillDoc(files) ==
    IF \E f \in files : f.content = "v2" THEN "d2" ELSE "d1"

push ==
    /\ remote = "c1"
    /\ remote' = "c2"
    /\ UNCHANGED <<schematics, parts, next_id, tx, rd, last, acked, req, mirror,
                   mirrorvars>>

(***************************************************************************)
(* Requests. A slot holds one request from its first await to its response *)
(* (pc = "done"), and is then free for the next request.                   *)
(***************************************************************************)
InFlight(q) == q.pc \notin {"idle", "done"}
Free(q) == q.pc \in {"idle", "done"}

\* Whether the response prev is that of a request that missed the cache for
\* (slug, c), distilled, and stored its document, with no invalidation of
\* the key since.
MissedAndStored(prev, slug, c) ==
    /\ prev.pc = "done"
    /\ prev.handler \in {"distill_schematics", "init_repo"}
    /\ prev.repo = slug /\ prev.commit = c
    /\ prev.probe = "miss" /\ prev.stored = "ok" /\ prev.status = "ok"
    /\ ~prev.forgot

\* The locals of a handler, with what is recorded about the request:
\*   arg         the commit as the request named it (commit: as resolved)
\*   first_doc   the document the request before it in the slot returned, if
\*               that request missed, distilled and stored under the same
\*               key; forgotten when the key is invalidated before the probe
\*   rival       another request stored under the key between that store and
\*               the probe
\*   disturbed   another request stored under the key after this one stored
\*   forgot      the key was invalidated after this request stored
\*   cleared     what has happened to the key: "clean" when it was
\*               invalidated before the probe, or after the response of a
\*               request that stored, and nothing was stored under it since,
\*               "refilled" when a request that had probed before the
\*               invalidation stored under it afterwards, "restored" when
\*               this request itself did, "no" otherwise
\*   outlived    the key was invalidated after this request probed
\*               (recorded when some request records it in cleared)
NewReq(s, h, slug, c, pc0, given) ==
    LET first == IF s \in Observed /\ c # NULL /\ MissedAndStored(req[s], slug, c)
                 THEN req[s].distilled ELSE NULL
        before == IF s \in Observed /\ c # NULL /\ req[s].pc = "done"
                     /\ req[s].repo = slug /\ req[s].commit = c
                     /\ req[s].cleared # "restored"
                  THEN req[s].cleared ELSE "no"
    IN [pc |-> pc0, handler |-> h, repo |-> slug, arg |-> c, commit |-> c,
        given |-> given, probe |-> NULL, cached_json |-> NULL, files |-> {},
        doc |-> NULL, acquired |-> FALSE, materialized |-> FALSE,
        invoked |-> FALSE, stored |-> NULL,
        first_doc |-> first,
        rival |-> IF first # NULL THEN req[s].disturbed ELSE FALSE,
        disturbed |-> FALSE, forgot |-> FALSE,
        cleared |-> before, outlived |-> FALSE,
        status |-> NULL, cached |-> NULL, distilled |-> NULL]

\* The response: kept in the slot when the slot is observed. The locals that
\* went out of scope are dropped.
Respond(s, q, status, cached, distilled) ==
    IF s \in Observed
    THEN [q EXCEPT !.pc = "done", !.status = status, !.cached = cached,
                   !.distilled = distilled, !.given = NULL,
                   !.cached_json = NULL, !.files = {},
                   !.cleared = IF @ = "restored" THEN @ ELSE "no"]
    ELSE IdleReq

SameKey(q, url, c) == q.pc # "idle" /\ RepoUrl(q.repo) = url /\ q.commit = c

\* What the store of a request makes of its own cleared.
Restore(q) ==
    [q EXCEPT !.stored = "ok",
              !.cleared = IF @ = "clean" THEN "restored" ELSE @]

\* What a store under the key by the request q makes of cleared.
Refill(was, q) ==
    IF was = "clean" THEN (IF q.outlived THEN "refilled" ELSE "no") ELSE was

\* Slot s has stored under (url, c): what the observed slots record of it.
Disturb(rq, s, url, c) ==
    [t \in Slots |->
        IF t = s \/ t \notin Observed \/ rq[t].pc = "idle"
           \/ RepoUrl(rq[t].repo) # url
           \/ ~(rq[t].commit = c \/ rq[t].commit = NULL)
        THEN rq[t]
        ELSE IF rq[t].pc = "done" /\ rq[t].stored = "ok"
        THEN [rq[t] EXCEPT !.disturbed = TRUE,
                           !.cleared = Refill(rq[t].cleared, rq[s])]
        ELSE IF InFlight(rq[t]) /\ rq[t].probe = NULL
        THEN [rq[t] EXCEPT !.rival = (rq[t].first_doc # NULL),
                           !.cleared = Refill(rq[t].cleared, rq[s])]
        ELSE [rq[t] EXCEPT !.cleared = Refill(rq[t].cleared, rq[s])]]

\* Whether the request q records the invalidation of (url, copt) in cleared.
Watching(q, url, copt) ==
    /\ q.pc # "idle" /\ RepoUrl(q.repo) = url
    /\ (copt = NULL \/ q.commit = copt)
    /\ \/ q.pc = "done" /\ q.stored = "ok"
       \/ InFlight(q) /\ q.probe = NULL

\* (url, copt) has been invalidated: what the slots record of it.
Forget(rq, url, copt) ==
    [t \in Slots |->
        IF rq[t].pc = "idle" \/ RepoUrl(rq[t].repo) # url
           \/ ~(copt = NULL \/ rq[t].commit = copt)
        THEN rq[t]
        ELSE IF t \notin Observed
        THEN [rq[t] EXCEPT !.outlived =
                 @ \/ (rq[t].probe # NULL
                       /\ \E o \in Observed : Watching(rq[o], url, copt))]
        ELSE IF InFlight(rq[t]) /\ rq[t].probe # NULL
        THEN rq[t]
        ELSE IF rq[t].pc = "done" /\ rq[t].stored = "ok"
        THEN [rq[t] EXCEPT !.forgot = TRUE, !.cleared = "clean"]
        ELSE IF rq[t].pc = "done"
        THEN rq[t]
        ELSE [rq[t] EXCEPT !.first_doc = NULL, !.rival = FALSE,
                           !.cleared = "clean"]]

DbUnchanged ==
    UNCHANGED <<schematics, parts, next_id, tx, rd, last, acked, mirrorvars>>

(***************************************************************************)
(* git::get_repo: clone or fetch, HEAD set to the remote's commit.         *)
(***************************************************************************)
get_repo_ok == mirror' = remote
get_repo_err == UNCHANGED mirror

(***************************************************************************)
(* distill::distill_repo_schematics, from the point of view of the caller: *)
(* Extract is get_schematic_files and the empty check, Transform is        *)
(* write_schematic_files_to_temp and run_distill_script.                   *)
(***************************************************************************)
Extract(s) ==
    /\ req[s].pc = "extract"
    /\ DbUnchanged
    /\ UNCHANGED remote
    /\ LET q == [req[s] EXCEPT !.acquired = TRUE]
       IN \/ /\ get_repo_err
             /\ req' = [req EXCEPT ![s] = Respond(s, q, "error", NULL, NULL)]
          \/ /\ get_repo_ok
             /\ LET cid == Revparse(q.commit, remote)
                    files == SchematicFilesAt(cid)
                IN IF cid = NULL \/ files = {}
                   THEN req' = [req EXCEPT ![s] = Respond(s, q, "error", NULL, NULL)]
                   ELSE req' = [req EXCEPT ![s] =
                                   [q EXCEPT !.pc = "transform", !.files = files]]

\* Where a handler goes once distill_repo_schematics has returned Ok.
AfterDistill(s, q, doc) ==
    IF q.handler = "selection_stream"
    THEN Respond(s, [q EXCEPT !.doc = doc], "ok", FALSE, doc)
    ELSE [q EXCEPT !.pc = "store", !.doc = doc, !.files = {}]

\* A transformation whose failed run leaves what it printed in the cache.
Transform_StoresPartial(s) ==
    /\ req[s].pc = "transform"
    /\ UNCHANGED <<parts, tx, rd, last, acked, remote, mirror, mirrorvars>>
    /\ LET q == [req[s] EXCEPT !.materialized = TRUE, !.invoked = TRUE]
           url == RepoUrl(q.repo)
       IN /\ CanUpsert(url, q.commit)
          /\ schematics' = UpsertDistilledJson(schematics, next_id, url,
                                               q.commit, DistillDoc(q.files))
          /\ next_id' = NextIdAfter(url, q.commit)
          /\ req' = [req EXCEPT ![s] = Respond(s, q, "error", NULL, NULL)]

Transform(s) ==
    /\ req[s].pc = "transform"
    /\ DbUnchanged
    /\ UNCHANGED <<remote, mirror>>
    /\ LET q == [req[s] EXCEPT !.materialized = TRUE]
       IN \/ req' = [req EXCEPT ![s] = Respond(s, q, "error", NULL, NULL)]
          \/ req' = [req EXCEPT ![s] =
                        Respond(s, [q EXCEPT !.invoked = TRUE], "error", NULL, NULL)]
          \/ req' = [req EXCEPT ![s] =
                        AfterDistill(s, [q EXCEPT !.invoked = TRUE],
                                     DistillDoc(q.files))]

(***************************************************************************)
(* distill_schematics                                                      *)
(***************************************************************************)
distill_schematics(s, c) ==
    /\ Free(req[s])
    /\ req' = [req EXCEPT ![s] =
                  NewReq(s, "distill_schematics", FlowSlug, c, "probe", NULL)]
    /\ DbUnchanged
    /\ UNCHANGED <<remote, mirror>>

\* A handler that answers a failed probe with an error.
ProbeErr_Abort(s, q) == Respond(s, [q EXCEPT !.probe = "err"], "error", NULL, NULL)

\* Err(e) => warn and continue to distill.
ProbeErr(s, q) == [q EXCEPT !.probe = "err", !.pc = "extract"]

distill_schematics_probe(s) ==
    /\ req[s].pc = "probe"
    /\ req[s].handler = "distill_schematics"
    /\ DbUnchanged
    /\ UNCHANGED <<remote, mirror>>
    /\ LET q == req[s]
           v == SelectDistilledJson(schematics, RepoUrl(q.repo), q.commit)
       IN \/ /\ v # NULL
             /\ req' = [req EXCEPT ![s] =
                          Respond(s, [q EXCEPT !.probe = "hit"], "ok", TRUE, v)]
          \/ /\ v = NULL
             /\ req' = [req EXCEPT ![s] =
                          [q EXCEPT !.probe = "miss", !.pc = "extract"]]
          \/ req' = [req EXCEPT ![s] = ProbeErr(s, q)]

\* A handler that turns a failed cache write into an error response.
StoreErrResponse_Error(s, q) ==
    Respond(s, [q EXCEPT !.stored = "err"], "error", NULL, NULL)

\* if let Err(e) = store_distilled_json(..) { warn }, then the response.
StoreErrResponse(s, q) ==
    Respond(s, [q EXCEPT !.stored = "err"], "ok", FALSE, q.doc)

\* store_distilled_json and the response.
distill_schematics_store(s) ==
    /\ req[s].pc = "store"
    /\ req[s].handler = "distill_schematics"
    /\ UNCHANGED <<parts, tx, rd, last, remote, mirror, mirrorvars>>
    /\ LET q == req[s]
           url == RepoUrl(q.repo)
       IN \/ /\ CanUpsert(url, q.commit)
             /\ schematics' = UpsertDistilledJson(schematics, next_id, url,
                                                  q.commit, q.doc)
             /\ next_id' = NextIdAfter(url, q.commit)
             /\ acked' = AckStore(acked, url, q.commit, q.doc)
             /\ req' = [Disturb(req, s, url, q.commit) EXCEPT ![s] =
                          Respond(s, Restore(q), "ok", FALSE, q.doc)]
          \/ /\ UNCHANGED <<schematics, next_id, acked>>
             /\ req' = [req EXCEPT ![s] = StoreErrResponse(s, q)]

(***************************************************************************)
(* init_repo                                                               *)
(***************************************************************************)
init_repo(s, copt) ==
    /\ Free(req[s])
    /\ req' = [req EXCEPT ![s] =
                  NewReq(s, "init_repo", FlowSlug, copt,
                         IF copt = NULL THEN "latest" ELSE "probe", NULL)]
    /\ DbUnchanged
    /\ UNCHANGED <<remote, mirror>>

\* git::get_latest_commit: get_repo, then the id of the commit at HEAD.
init_repo_latest(s) ==
    /\ req[s].pc = "latest"
    /\ DbUnchanged
    /\ UNCHANGED remote
    /\ LET q == [req[s] EXCEPT !.acquired = TRUE]
       IN \/ /\ get_repo_err
             /\ req' = [req EXCEPT ![s] = Respond(s, q, "error", NULL, NULL)]
          \/ /\ get_repo_ok
             /\ req' = [req EXCEPT ![s] =
                          [q EXCEPT !.commit = remote, !.pc = "probe"]]

\* A handler that takes the cached branch whatever the probe returned.
InitRepoBranch_AlwaysHit(v) == "hit_files"

\* A handler that takes the uncached branch whatever the probe returned.
InitRepoBranch_AlwaysMiss(v) == "miss_files"

\* if let Some(cached_json) = cached { .. } else the uncached branch.
InitRepoBranch(v) == IF v # NULL THEN "hit_files" ELSE "miss_files"

\* retrieve_distilled_json(..).await.ok().flatten()
init_repo_probe(s) ==
    /\ req[s].pc = "probe"
    /\ req[s].handler = "init_repo"
    /\ DbUnchanged
    /\ UNCHANGED <<remote, mirror>>
    /\ LET q == req[s]
           v == SelectDistilledJson(schematics, RepoUrl(q.repo), q.commit)
       IN \/ /\ v # NULL
             /\ req' = [req EXCEPT ![s] =
                          [q EXCEPT !.probe = "hit", !.cached_json = v,
                                    !.pc = InitRepoBranch(v)]]
          \/ /\ v = NULL
             /\ req' = [req EXCEPT ![s] =
                          [q EXCEPT !.probe = "miss", !.pc = InitRepoBranch(v)]]
          \/ req' = [req EXCEPT ![s] =
                          [q EXCEPT !.probe = "err", !.pc = InitRepoBranch(NULL)]]

\* The cached branch: get_schematic_files for the file list of the response.
init_repo_hit_files(s) ==
    /\ req[s].pc = "hit_files"
    /\ DbUnchanged
    /\ UNCHANGED remote
    /\ LET q == [req[s] EXCEPT !.acquired = TRUE]
       IN \/ /\ get_repo_err
             /\ req' = [req EXCEPT ![s] = Respond(s, q, "error", NULL, NULL)]
          \/ /\ get_repo_ok
             /\ IF Revparse(q.commit, remote) = NULL
                THEN req' = [req EXCEPT ![s] = Respond(s, q, "error", NULL, NULL)]
                ELSE req' = [req EXCEPT ![s] =
                        Respond(s, [q EXCEPT !.files =
                                   SchematicFilesAt(Revparse(q.commit, remote))],
                                "ok", TRUE, q.cached_json)]

\* The uncached branch: get_schematic_files, 404 when there are none.
init_repo_miss_files(s) ==
    /\ req[s].pc = "miss_files"
    /\ DbUnchanged
    /\ UNCHANGED remote
    /\ LET q == [req[s] EXCEPT !.acquired = TRUE]
       IN \/ /\ get_repo_err
             /\ req' = [req EXCEPT ![s] = Respond(s, q, "error", NULL, NULL)]
          \/ /\ get_repo_ok
             /\ LET cid == Revparse(q.commit, remote)
                IN IF cid = NULL
                   THEN req' = [req EXCEPT ![s] = Respond(s, q, "error", NULL, NULL)]
                   ELSE IF SchematicFilesAt(cid) = {}
                   THEN req' = [req EXCEPT ![s] =
                                   Respond(s, q, "not_found", NULL, NULL)]
                   ELSE req' = [req EXCEPT ![s] =
                                   [q EXCEPT !.files = SchematicFilesAt(cid),
                                             !.pc = "extract"]]

\* store_distilled_json with its error logged, and the response.
init_repo_store(s) ==
    /\ req[s].pc = "store"
    /\ req[s].handler = "init_repo"
    /\ UNCHANGED <<parts, tx, rd, last, remote, mirror, mirrorvars>>
    /\ LET q == req[s]
           url == RepoUrl(q.repo)
       IN \/ /\ CanUpsert(url, q.commit)
             /\ schematics' = UpsertDistilledJson(schematics, next_id, url,
                                                  q.commit, q.doc)
             /\ next_id' = NextIdAfter(url, q.commit)
             /\ acked' = AckStore(acked, url, q.commit, q.doc)
             /\ req' = [Disturb(req, s, url, q.commit) EXCEPT ![s] =
                          Respond(s, Restore(q), "ok", FALSE, q.doc)]
          \/ /\ UNCHANGED <<schematics, next_id, acked>>
             /\ req' = [req EXCEPT ![s] =
                          Respond(s, [q EXCEPT !.stored = "err"], "ok", FALSE, q.doc)]

(***************************************************************************)
(* selection_stream, up to the point where it holds the distilled data.    *)
(***************************************************************************)
selection_stream(s, c, given) ==
    /\ Free(req[s])
    /\ DbUnchanged
    /\ UNCHANGED <<remote, mirror>>
    /\ LET q == NewReq(s, "selection_stream", FlowSlug, c, "probe", given)
       IN \/ req' = [req EXCEPT ![s] = Respond(s, q, "error", NULL, NULL)]
          \/ /\ given # NULL
             /\ req' = [req EXCEPT ![s] = Respond(s, q, "ok", FALSE, given)]
          \/ /\ given = NULL
             /\ req' = [req EXCEPT ![s] = q]

\* match retrieve_distilled_json(..) { Ok(Some(cached)) => cached, _ => distill }
selection_stream_probe(s) ==
    /\ req[s].pc = "probe"
    /\ req[s].handler = "selection_stream"
    /\ DbUnchanged
    /\ UNCHANGED <<remote, mirror>>
    /\ LET q == req[s]
           v == SelectDistilledJson(schematics, RepoUrl(q.repo), q.commit)
       IN \/ /\ v # NULL
             /\ req' = [req EXCEPT ![s] =
                          Respond(s, [q EXCEPT !.probe = "hit"], "ok", TRUE, v)]
          \/ /\ v = NULL
             /\ req' = [req EXCEPT ![s] =
                          [q EXCEPT !.probe = "miss", !.pc = "extract"]]
          \/ req' = [req EXCEPT ![s] =
                          [q EXCEPT !.probe = "err", !.pc = "extract"]]

(***************************************************************************)
(* clear_cache arriving while other requests are in flight. Its response   *)
(* is not kept; a clear_distilled_json that fails changes nothing.         *)
(***************************************************************************)
clear_cache_concurrent(slug, copt) ==
    /\ UNCHANGED <<next_id, tx, rd, last, remote, mirror, mirrorvars>>
    /\ LET url == RepoUrl(slug)
           gone == ClearedRows(schematics, url, ClearCacheCommit(copt))
       IN /\ schematics' = schematics \ gone
          /\ parts' = PartsWithout(parts, gone)
          /\ acked' = AckClear(acked, url, ClearCacheCommit(copt))
          /\ req' = Forget(req, url, ClearCacheCommit(copt))

NextFlow ==
    \/ push
    \/ \E s \in Slots, c \in CommitExprs :
           (s \in Observed \/ c = "HEAD") /\ distill_schematics(s, c)
    \/ \E s \in Slots : distill_schematics_probe(s)
    \/ \E s \in Slots : distill_schematics_store(s)
    \/ \E s \in Observed, copt \in CommitExprs \cup {NULL} : init_repo(s, copt)
    \/ \E s \in Observed : init_repo_latest(s)
    \/ \E s \in Observed : init_repo_probe(s)
    \/ \E s \in Observed : init_repo_hit_files(s)
    \/ \E s \in Observed : init_repo_miss_files(s)
    \/ \E s \in Observed : init_repo_store(s)
    \/ \E s \in Observed, c \in CommitExprs, given \in {"d1", NULL} :
           selection_stream(s, c, given)
    \/ \E s \in Observed : selection_stream_probe(s)
    \/ \E s \in Slots : Extract(s)
    \/ \E s \in Slots : Transform(s)
    \/ \E copt \in CommitExprs \cup {NULL} : clear_cache_concurrent(FlowSlug, copt)

SpecFlow == Init /\ [][NextFlow]_vars

(***************************************************************************)
(* Properties of the storage layer (Spec). Every step of Spec completes a  *)
(* call and records it in last, so last describes the step just taken and  *)
(* the tables are as that call left them.                                  *)
(***************************************************************************)
KeyOfLast(rows) == RowsAt(rows, last.repo_url, last.commit_hash)

\* C1: round trip. Once store_distilled_json(r, c, d) has succeeded and no
\* later store_distilled_json or invalidation has touched (r, c), a
\* retrieve_distilled_json(r, c) whose query runs returns Some(d), whether the
\* store inserted the row or updated a row that was already there.
C1_RoundTrip ==
    (last.op = "retrieve_distilled_json" /\ ~last.fault) =>
        \A a \in acked :
            (a.repo_url = last.repo_url /\ a.commit_hash = last.commit_hash)
            => (last.ok /\ last.value = a.doc)

\* A retrieve that returns the second document stored under a key whose row
\* store_schematic has written too.
C1_Witness ==
    /\ last.op = "retrieve_distilled_json" /\ last.ok /\ last.value = "d2"
    /\ \E a \in acked : /\ a.repo_url = last.repo_url
                        /\ a.commit_hash = last.commit_hash
                        /\ a.doc = "d2"
    /\ \E row \in KeyOfLast(schematics) : row.blurb = "b1"

\* C2: partial-update law. A store_schematic on an existing key leaves every
\* column it is given no value for as it was and sets the others, so that
\* the row holds the union of what the calls supplied.
C2_PartialUpdateLaw ==
    [][(last'.op = "store_schematic" /\ last'.ok) =>
         \A old \in RowsAt(schematics, last'.repo_url, last'.commit_hash) :
         \A new \in RowsAt(schematics', last'.repo_url, last'.commit_hash) :
         \A col \in SchematicColumns :
             new[col] = IF last'.args[col] # NULL THEN last'.args[col]
                        ELSE old[col]]_vars

\* C3: store_distilled_json on a key whose row exists changes the
\* distilled_json of that row and nothing else: the other columns of the
\* row, its parts, every other row and every other part are as before.
C3_OnlyDocumentChanges ==
    [][(/\ last'.op = "store_distilled_json"
        /\ last'.ok
        /\ RowsAt(schematics, last'.repo_url, last'.commit_hash) # {}) =>
         /\ parts' = parts
         /\ schematics' =
              {IF row.repo_url = last'.repo_url /\ row.commit_hash = last'.commit_hash
               THEN [row EXCEPT !.distilled_json = last'.value]
               ELSE row : row \in schematics}]_vars

\* A store_distilled_json that has just updated a row which holds text
\* columns and a part, beside another row.
C3_Witness ==
    /\ last.op = "store_distilled_json" /\ last.ok
    /\ \E row \in KeyOfLast(schematics) :
          /\ row.blurb = "b1" /\ row.git_message = "m1"
          /\ row.distilled_json = last.value
          /\ \E q \in parts : q.schematic_id = row.id
    /\ Cardinality(schematics) >= 2

C9_AbsentIsNone ==
    [][(/\ last'.op = "retrieve_distilled_json"
        /\ RowsAt(schematics, last'.repo_url, last'.commit_hash) = {}) =>
         /\ UNCHANGED <<schematics, parts, next_id>>
         /\ ~last'.fault => (last'.ok /\ last'.value = NULL)]_vars

\* A retrieve that found nothing for a repository without any row, in a
\* cache that holds rows of the other repository.
C9_Witness ==
    /\ last.op = "retrieve_distilled_json" /\ last.ok /\ last.value = NULL
    /\ last.repo_url = RepoUrl("acme/psu")
    /\ \A row \in schematics : row.repo_url # last.repo_url
    /\ schematics # {}

\* C10: clear_cache with a commit removes the row of that key and only it,
\* reports how many rows it removed (1 when the row was there, 0 when it was
\* not, as on a repeated call), and leaves the key without a row, so that a
\* get for it is absent; every other row and the parts of every other row
\* are unchanged.
C10_InvalidateOneKey ==
    [][(last'.op = "clear_cache" /\ last'.ok /\ last'.commit_hash # NULL) =>
         LET hit == RowsAt(schematics, last'.repo_url, last'.commit_hash)
         IN /\ Cardinality(hit) <= 1
            /\ last'.value = Cardinality(hit)
            /\ last'.cleared = (hit # {})
            /\ schematics' = schematics \ hit
            /\ \A q \in parts :
                  (q.schematic_id \notin {row.id : row \in hit}) => q \in parts'
            /\ parts' \subseteq parts
            /\ SelectDistilledJson(schematics', last'.repo_url,
                                   last'.commit_hash) = NULL]_vars

\* A clear_cache that removed one row and left a row of another commit of
\* the repository and a row of the other repository.
C10_Witness ==
    /\ last.op = "clear_cache" /\ last.ok /\ last.value = 1
    /\ last.commit_hash # NULL
    /\ \E row \in schematics :
          row.repo_url = last.repo_url /\ row.commit_hash # last.commit_hash
    /\ \E row \in schematics : row.repo_url # last.repo_url

(***************************************************************************)
(* Properties of the handlers (SpecFlow), read off the observed slot.      *)
(***************************************************************************)
Obs == req["s1"]

Distilling(q) == q.handler \in {"distill_schematics", "init_repo"}

\* C5 as stated: after a request that missed, distilled and stored, the next
\* request for the same key, with no invalidation in between and the probe's
\* query running, is answered with cached = true and the same document.
C5_NextRequestHits ==
    (/\ Obs.pc = "done" /\ Distilling(Obs)
     /\ Obs.first_doc # NULL /\ Obs.probe # "err") =>
        (Obs.status = "ok" /\ Obs.cached = TRUE /\ Obs.distilled = Obs.first_doc)

\* C5, amended: a request that missed, distilled and stored leaves its
\* document under the key when it responds; the next request for the key,
\* with no invalidation and no other request's store under the key in
\* between and the probe's query running, finds that document: the distill
\* endpoint answers with it and cached = true, and so does init_repo unless
\* listing the files of the commit fails, which it answers with an error.
C5_NextRequestHitsUndisturbed ==
    (Obs.pc = "done" /\ Distilling(Obs)) =>
        /\ (/\ Obs.probe = "miss" /\ Obs.stored = "ok"
            /\ ~Obs.disturbed /\ ~Obs.forgot) =>
               SelectDistilledJson(schematics, RepoUrl(Obs.repo), Obs.commit)
                 = Obs.distilled
        /\ (Obs.first_doc # NULL /\ ~Obs.rival /\ Obs.probe # "err") =>
               /\ Obs.probe = "hit"
               /\ Obs.status \in {"ok", "error"}
               /\ Obs.status = "ok" =>
                     (Obs.cached = TRUE /\ Obs.distilled = Obs.first_doc)
               /\ Obs.handler = "distill_schematics" => Obs.status = "ok"

\* init_repo answered from the cache with the document the distill request
\* before it had stored.
C5_Witness ==
    /\ Obs.pc = "done" /\ Obs.handler = "init_repo"
    /\ Obs.first_doc = "d2" /\ ~Obs.rival
    /\ Obs.probe = "hit" /\ Obs.status = "ok"
    /\ Obs.cached = TRUE /\ Obs.distilled = "d2"

\* C6 as stated: a distill request, or an init_repo request that names its
\* commit, whose probe finds a document neither acquires the mirror nor
\* materializes a workspace nor invokes the transformation.
C6_CacheAlone ==
    (/\ Obs.pc = "done" /\ Distilling(Obs)
     /\ Obs.arg # NULL /\ Obs.probe = "hit") =>
        (~Obs.acquired /\ ~Obs.materialized /\ ~Obs.invoked)

\* C6, amended: such a request neither materializes a workspace nor invokes
\* the transformation nor writes the cache; the distill endpoint does not
\* acquire the mirror either and answers with the cached document; init_repo
\* acquires the mirror, for the file list of its response.
C6_NoDistillOnHit ==
    (/\ Obs.pc # "idle" /\ Distilling(Obs)
     /\ Obs.arg # NULL /\ Obs.probe = "hit") =>
        /\ ~Obs.materialized /\ ~Obs.invoked /\ Obs.stored = NULL
        /\ Obs.pc \in {"hit_files", "done"}
        /\ Obs.handler = "distill_schematics" =>
              (Obs.pc = "done" /\ ~Obs.acquired /\ Obs.status = "ok"
               /\ Obs.cached = TRUE /\ Obs.distilled # NULL)
        /\ (Obs.handler = "init_repo" /\ Obs.pc = "done") =>
              (Obs.acquired /\ (Obs.status = "ok" => Obs.cached = TRUE))

\* init_repo, its commit named, answered from the cache after acquiring the
\* mirror.
C6_Witness ==
    /\ Obs.pc = "done" /\ Obs.handler = "init_repo" /\ Obs.arg = "HEAD"
    /\ Obs.probe = "hit" /\ Obs.acquired /\ ~Obs.materialized
    /\ Obs.status = "ok" /\ Obs.cached = TRUE

\* C7: a request whose cache probe failed goes on as after a miss: it runs
\* the distillation (distill endpoint, init_repo and selection_stream
\* alike), and when the distillation yields a document the response is a
\* success carrying that document with cached = false.
C7_ProbeErrorIsMiss ==
    (Obs.pc # "idle" /\ Obs.probe = "err") =>
        /\ Obs.pc \in {"miss_files", "extract", "transform", "store", "done"}
        /\ Obs.pc = "done" =>
              /\ Obs.acquired
              /\ Obs.doc # NULL =>
                    (/\ Obs.status = "ok" /\ Obs.cached = FALSE
                     /\ Obs.distilled = Obs.doc /\ Obs.invoked)

\* selection_stream answered with a fresh document after its probe failed.
C7_Witness ==
    /\ Obs.pc = "done" /\ Obs.handler = "selection_stream"
    /\ Obs.probe = "err" /\ Obs.status = "ok"
    /\ Obs.cached = FALSE /\ Obs.distilled = "d1"

\* C8: a request whose distillation succeeded and whose store_distilled_json
\* failed is answered with success, the fresh document and cached = false.
C8_StoreFailureInvisible ==
    (Obs.pc = "done" /\ Obs.stored = "err") =>
        /\ Obs.status = "ok" /\ Obs.cached = FALSE
        /\ Obs.invoked /\ Obs.doc # NULL /\ Obs.distilled = Obs.doc

\* A distill request answered with its document although the write failed,
\* the key left without a row.
C8_Witness ==
    /\ Obs.pc = "done" /\ Obs.handler = "distill_schematics"
    /\ Obs.stored = "err" /\ Obs.status = "ok" /\ Obs.distilled = "d2"
    /\ RowsAt(schematics, RepoUrl(Obs.repo), Obs.commit) = {}

\* C11: clear_cache without a commit removes every row of the repository and
\* no row of another repository, reports as its count the number of rows the
\* repository had, and leaves every commit of the repository without a
\* document; the parts of the rows of other repositories are unchanged.
C11_InvalidateRepository ==
    [][(last'.op = "clear_cache" /\ last'.ok /\ last'.commit_hash = NULL) =>
         LET hit == {row \in schematics : row.repo_url = last'.repo_url}
         IN /\ schematics' = schematics \ hit
            /\ last'.value = Cardinality(hit)
            /\ last'.cleared = (hit # {})
            /\ \A row \in schematics' : row.repo_url # last'.repo_url
            /\ \A c \in Commits :
                  SelectDistilledJson(schematics', last'.repo_url, c) = NULL
            /\ \A q \in parts :
                  (q.schematic_id \notin {row.id : row \in hit}) => q \in parts'
            /\ parts' \subseteq parts]_vars

\* A clear_cache that removed the two rows of a repository and left the row
\* of the other repository.
C11_Witness ==
    /\ last.op = "clear_cache" /\ last.ok /\ last.commit_hash = NULL
    /\ last.value = 2
    /\ \E row \in schematics : row.repo_url # last.repo_url

Clone(o) ==
    [exists |-> TRUE, head |-> o.tips[o.default], detached |-> FALSE,
     origin_head |-> o.default, tracking |-> o.tips]

\* remote.fetch(&["refs/heads/*:refs/remotes/origin/*"], None, None): the
\* branches of the remote are written; nothing is pruned.
Fetch(d, o) ==
    [d EXCEPT !.tracking = [b \in Branches |->
                               IF o.tips[b] # NULL THEN o.tips[b] ELSE @[b]]]

\* A lookup that tries origin/master before origin/main.
RemoteHead_MasterFirst(d) ==
    IF d.origin_head # NULL THEN d.tracking[d.origin_head]
    ELSE IF d.tracking["master"] # NULL THEN d.tracking["master"]
    ELSE d.tracking["main"]

\* find_reference("refs/remotes/origin/HEAD"), or origin/main, or
\* origin/master, peeled; NULL: none of them is there.
RemoteHead(d) ==
    IF d.origin_head # NULL THEN d.tracking[d.origin_head]
    ELSE IF d.tracking["main"] # NULL THEN d.tracking["main"]
    ELSE d.tracking["master"]

\* repo.set_head_detached(remote_commit_id)
SetHeadDetached(d, c) == [d EXCEPT !.head = c, !.detached = TRUE]

\* A force_fresh that leaves the directory in place.
ForceDelete_Keep(d, force_fresh) == d

\* if force_fresh && cache_path.exists() { remove_dir_all }
ForceDelete(d, force_fresh) == IF force_fresh /\ Exists(d) THEN NoDir ELSE d

\* The closure of get_repo_with_options: clone, or open, fetch and detach.
\* The directory it leaves, also when it fails in open or in the lookup.
CloneOrFetch(d, o) ==
    IF ~Exists(d) THEN Clone(o)
    ELSE IF ~IsRepo(d) THEN d
    ELSE IF RemoteHead(Fetch(d, o)) = NULL THEN Fetch(d, o)
    ELSE SetHeadDetached(Fetch(d, o), RemoteHead(Fetch(d, o)))

\* The error of the closure when no operation on the remote or the disk
\* fails: Repository::open on a directory that holds no repository, or
\* "Failed to find remote HEAD". NULL: none.
CloneOrFetchErr(d, o) ==
    IF ~Exists(d) THEN NULL
    ELSE IF ~IsRepo(d) THEN "open"
    ELSE IF RemoteHead(Fetch(d, o)) = NULL THEN "NoDefaultBranch"
    ELSE NULL

\* The closure of get_git_repo: clone, or open and fetch.
CloneOrFetchOnly(d, o) ==
    IF ~Exists(d) THEN Clone(o)
    ELSE IF ~IsRepo(d) THEN d
    ELSE Fetch(d, o)

\* What is recorded of an acquisition: whether the directory existed when
\* the call began and when the closure looked, the remote's default-branch
\* tip at that time, and the call before it.
MirrorCall(op, force_fresh, before, at, ok, err) ==
    [op |-> op, force_fresh |-> force_fresh, ok |-> ok, err |-> err,
     existed |-> Exists(before), absent_at_clone |-> ~Exists(at),
     damaged |-> before \in {PartialDir, UnbornDir},
     head_before |-> IF IsRepo(before) THEN before.head ELSE NULL,
     cloned |-> ok /\ ~Exists(at),
     tip |-> origin.tips[origin.default],
     prev |-> call.op,
     prev_fresh |-> IF call.op = "get_repo_with_options"
                    THEN call.ok /\ call.force_fresh ELSE FALSE]

origin_push ==
    /\ origin.tips["main"] = "c1"
    /\ origin' = [origin EXCEPT !.tips["main"] = "m2"]
    /\ UNCHANGED <<cache, acq, ws, job, call, cachevars>>

\* A branch of the remote is renamed; the default branch stays the default.
origin_rename_branch(a, b) ==
    /\ origin.tips[a] # NULL
    /\ origin.tips[b] = NULL
    /\ origin' = [default |-> IF origin.default = a THEN b ELSE origin.default,
                  tips |-> [origin.tips EXCEPT ![a] = NULL, ![b] = origin.tips[a]]]
    /\ UNCHANGED <<cache, acq, ws, job, call, cachevars>>

\* A clone that never returned (the process was stopped while it ran): the
\* directory is there, without a repository in it or with one that has no
\* reference yet.
clone_interrupted ==
    /\ ~Exists(cache[MirrorPath])
    /\ \E d \in {PartialDir, UnbornDir} : cache' = [cache EXCEPT ![MirrorPath] = d]
    /\ call' = [op |-> "clone_interrupted"]
    /\ UNCHANGED <<origin, acq, ws, job, cachevars>>

\* A branch of the remote that is not its default branch is deleted.
origin_delete_branch(b) ==
    /\ origin.tips[b] # NULL
    /\ origin.default # b
    /\ origin' = [origin EXCEPT !.tips[b] = NULL]
    /\ UNCHANGED <<cache, acq, ws, job, call, cachevars>>

origin_set_default(b) ==
    /\ origin.default # b
    /\ origin.tips[b] # NULL
    /\ origin' = [origin EXCEPT !.default = b]
    /\ UNCHANGED <<cache, acq, ws, job, call, cachevars>>

get_repo_with_options(force_fresh) ==
    LET before == cache[MirrorPath]
        at == ForceDelete(before, force_fresh)
        op == "get_repo_with_options"
    IN /\ UNCHANGED <<origin, acq, ws, job, cachevars>>
       /\ \/ /\ force_fresh /\ Exists(before)
             /\ cache' = cache
             /\ call' = MirrorCall(op, force_fresh, before, before, FALSE, "delete")
          \/ /\ cache' = [cache EXCEPT ![MirrorPath] = at]
             /\ call' = MirrorCall(op, force_fresh, before, at, FALSE, "git")
          \/ /\ CloneOrFetchErr(at, origin) # NULL
             /\ cache' = [cache EXCEPT ![MirrorPath] = CloneOrFetch(at, origin)]
             /\ call' = MirrorCall(op, force_fresh, before, at, FALSE,
                                   CloneOrFetchErr(at, origin))
          \/ /\ CloneOrFetchErr(at, origin) = NULL
             /\ cache' = [cache EXCEPT ![MirrorPath] = CloneOrFetch(at, origin)]
             /\ call' = MirrorCall(op, force_fresh, before, at, TRUE, NULL)

get_git_repo ==
    LET before == cache[MirrorPath]
        op == "get_git_repo"
    IN /\ UNCHANGED <<origin, acq, ws, job, cachevars>>
       /\ \/ /\ UNCHANGED cache
             /\ call' = MirrorCall(op, FALSE, before, before, FALSE, "git")
          \/ /\ Exists(before) /\ ~IsRepo(before)
             /\ UNCHANGED cache
             /\ call' = MirrorCall(op, FALSE, before, before, FALSE, "open")
          \/ /\ ~Exists(before) \/ IsRepo(before)
             /\ cache' = [cache EXCEPT ![MirrorPath] =
                             CloneOrFetchOnly(before, origin)]
             /\ call' = MirrorCall(op, FALSE, before, before, TRUE, NULL)

invalidate_cache ==
    LET before == cache[MirrorPath]
    IN /\ UNCHANGED <<origin, acq, ws, job, cachevars>>
       /\ \/ /\ Exists(before)
             /\ UNCHANGED cache
             /\ call' = [op |-> "invalidate_cache", ok |-> FALSE,
                         existed |-> TRUE]
          \/ /\ cache' = [cache EXCEPT ![MirrorPath] = NoDir]
             /\ call' = [op |-> "invalidate_cache", ok |-> TRUE,
                         existed |-> Exists(before)]

\* get_repo, then repo.head()?.peel_to_commit()?.id()
get_latest_commit ==
    LET before == cache[MirrorPath]
        after == CloneOrFetch(before, origin)
    IN /\ UNCHANGED <<origin, acq, ws, job, cachevars>>
       /\ \/ /\ UNCHANGED cache
             /\ call' = [op |-> "get_latest_commit", ok |-> FALSE]
          \/ /\ CloneOrFetchErr(before, origin) # NULL
             /\ cache' = [cache EXCEPT ![MirrorPath] = after]
             /\ call' = [op |-> "get_latest_commit", ok |-> FALSE]
          \/ /\ CloneOrFetchErr(before, origin) = NULL
             /\ cache' = [cache EXCEPT ![MirrorPath] = after]
             /\ call' = [op |-> "get_latest_commit", ok |-> TRUE,
                         value |-> after.head]

\* One more commit of a walk sorted TOPOLOGICAL | TIME: of the commits none
\* of whose children is still to come, the one with the latest time.
RECURSIVE Walk(_, _)
Walk(todo, out) ==
    IF todo = {} THEN out
    ELSE LET ready == {c \in todo : \A d \in todo : c \notin Parents(d)}
             pick == CHOOSE c \in ready :
                        \A e \in ready : CommitTime(e) <= CommitTime(c)
         IN Walk(todo \ {pick}, Append(out, pick))

\* revwalk.set_sorting(TOPOLOGICAL | TIME); revwalk.push_head(); the walk.
Revwalk(head) == Walk(Reach(head), <<>>)

\* get_repo, then the walk from HEAD.
get_all_commits ==
    LET before == cache[MirrorPath]
        after == CloneOrFetch(before, origin)
    IN /\ UNCHANGED <<origin, acq, ws, job, cachevars>>
       /\ \/ /\ UNCHANGED cache
             /\ call' = [op |-> "get_all_commits", ok |-> FALSE]
          \/ /\ CloneOrFetchErr(before, origin) # NULL
             /\ cache' = [cache EXCEPT ![MirrorPath] = after]
             /\ call' = [op |-> "get_all_commits", ok |-> FALSE]
          \/ /\ CloneOrFetchErr(before, origin) = NULL
             /\ cache' = [cache EXCEPT ![MirrorPath] = after]
             /\ call' = [op |-> "get_all_commits", ok |-> TRUE,
                         head |-> after.head,
                         again |-> IF call.op = "get_all_commits" /\ call.ok
                                      /\ call.head = after.head
                                   THEN call.commits ELSE <<>>,
                         commits |-> Revwalk(after.head)]

\* The tree walk of get_schematic_files over the commits of the remote: c1
\* holds two schematics, m2 changes one and removes the other.
TreeFiles(c) ==
    CASE c = "c0" -> {}
      [] c = "c1" -> {[path |-> "a/x.kicad_sch", content |-> "v1"],
                      [path |-> "z.kicad_sch", content |-> "w1"]}
      [] c = "b1" -> {[path |-> "z.kicad_sch", content |-> "w1"]}
      [] c = "m2" -> {[path |-> "a/x.kicad_sch", content |-> "v2"]}

\* The commits the object database of the mirror d holds: what is reachable
\* from the references a clone or fetch wrote.
CommitsIn(d) ==
    UNION {Reach(d.tracking[b]) : b \in {x \in Branches : d.tracking[x] # NULL}}

\* The branch behind the name of a remote-tracking reference.
RefBranch(spec) ==
    CASE spec = "origin/main" -> "main"
      [] spec = "origin/master" -> "master"
      [] spec = "origin/dev" -> "dev"
      [] OTHER -> NULL

\* The commit whose tree has the hash.
TreeOwner(spec) == IF spec = "t1" THEN "c1" ELSE NULL

\* The failure of revparse_single: nothing is found.
NoObject == [kind |-> "none", id |-> NULL]

\* repo.revparse_single(spec) in the mirror d: HEAD, a remote-tracking
\* reference, the hash of a commit or of a tree.
revparse_single(d, spec) ==
    IF spec = "HEAD"
    THEN IF d.head # NULL THEN [kind |-> "commit", id |-> d.head]
         ELSE NoObject
    ELSE IF RefBranch(spec) # NULL
    THEN IF d.tracking[RefBranch(spec)] # NULL
         THEN [kind |-> "commit", id |-> d.tracking[RefBranch(spec)]]
         ELSE NoObject
    ELSE IF spec \in CommitsIn(d) THEN [kind |-> "commit", id |-> spec]
    ELSE IF TreeOwner(spec) \in CommitsIn(d) THEN [kind |-> "tree", id |-> spec]
    ELSE NoObject

\* obj.peel_to_commit(); NULL: the object is not a commit.
peel_to_commit(obj) == IF obj.kind = "commit" THEN obj.id ELSE NULL

\* A resolution that falls back to HEAD.
ResolveIn_HeadFallback(d, commit_hash) ==
    IF revparse_single(d, commit_hash) = NoObject THEN d.head
    ELSE IF peel_to_commit(revparse_single(d, commit_hash)) = NULL THEN d.head
    ELSE peel_to_commit(revparse_single(d, commit_hash))

\* repo.revparse_single(commit_hash)?.peel_to_commit()? in the mirror d;
\* NULL: one of the two failed.
ResolveIn(d, commit_hash) ==
    IF revparse_single(d, commit_hash) = NoObject THEN NULL
    ELSE peel_to_commit(revparse_single(d, commit_hash))

\* The error of the resolution.
ResolveErr(d, commit_hash) ==
    IF revparse_single(d, commit_hash) = NoObject THEN "NotFound" ELSE "Peel"

\* commit.parents().next() of the commits of the remote.
FirstParentOf(c) ==
    CASE c = "c1" -> "c0"
      [] c = "b1" -> "c0"
      [] c = "m2" -> "c1"

\* has_schematic_changes on the commits of the remote: a schematic of the
\* tree for a root commit, a schematic that differs from the first parent's
\* otherwise.
HasSchematicChanges(c) ==
    IF Parents(c) = {} THEN TreeFiles(c) # {}
    ELSE TreeFiles(FirstParentOf(c)) # TreeFiles(c)

\* The paths get_changed_schematic_files returns for a commit of the remote.
ChangedPaths(c) ==
    IF Parents(c) = {} THEN {f.path : f \in TreeFiles(c)}
    ELSE {f.path : f \in (TreeFiles(FirstParentOf(c)) \ TreeFiles(c))
                          \cup (TreeFiles(c) \ TreeFiles(FirstParentOf(c)))}

\* CommitInfo { commit_hash, commit_date, message, has_schematic_changes }
CommitInfo(c) ==
    [commit_hash |-> c, commit_date |-> CommitTime(c),
     has_schematic_changes |-> HasSchematicChanges(c)]

\* The strings the lookups are asked for: HEAD, remote-tracking references
\* with and without a branch behind them, commits the remote holds from the
\* start (c1) or only after a push (m2), the hash of a tree, and a hash the
\* remote does not hold.
LookupSpecs == {"HEAD", "origin/main", "origin/master", "c1", "m2", "t1", "ffff"}

\* What is recorded of a lookup: the string, the commit it resolved to and
\* the value returned.
LookupCall(op, spec, ok, err, commit, value) ==
    [op |-> op, spec |-> spec, ok |-> ok, err |-> err, commit |-> commit,
     value |-> value]

\* A lookup: get_repo, then the resolution, then the value.
Lookup(op, spec) ==
    LET after == CloneOrFetch(cache[MirrorPath], origin)
        acquired == CloneOrFetchErr(cache[MirrorPath], origin) = NULL
        commit == ResolveIn(after, spec)
    IN /\ UNCHANGED <<origin, acq, ws, job, cachevars>>
       /\ \/ /\ UNCHANGED cache
             /\ call' = LookupCall(op, spec, FALSE, "git", NULL, {})
          \/ /\ ~acquired
             /\ cache' = [cache EXCEPT ![MirrorPath] = after]
             /\ call' = LookupCall(op, spec, FALSE, "git", NULL, {})
          \/ /\ acquired
             /\ commit = NULL
             /\ cache' = [cache EXCEPT ![MirrorPath] = after]
             /\ call' = LookupCall(op, spec, FALSE, ResolveErr(after, spec),
                                   NULL, {})
          \/ /\ acquired
             /\ commit # NULL
             /\ cache' = [cache EXCEPT ![MirrorPath] = after]
             /\ call' = LookupCall(op, spec, TRUE, NULL, commit,
                            CASE op = "get_schematic_files" -> TreeFiles(commit)
                              [] op = "get_changed_schematic_files" ->
                                    ChangedPaths(commit)
                              [] op = "get_commit_info" -> {CommitInfo(commit)})

schematic_files_at(commit_hash) == Lookup("get_schematic_files", commit_hash)
changed_schematic_files_at(commit_hash) ==
    Lookup("get_changed_schematic_files", commit_hash)
get_commit_info(commit_hash) == Lookup("get_commit_info", commit_hash)

\* A workspace that keeps what it held.
Wipe_Keep(dir) == dir

\* if temp_dir.exists() { remove_dir_all(&temp_dir) }
Wipe(dir) == IF Exists(dir) THEN NoDir ELSE dir

\* create_dir_all(&temp_dir)
MkDir(dir) == IF Exists(dir) THEN dir ELSE [exists |-> TRUE, files |-> {}]

\* create_dir_all(parent), then fs::write(&file_path, &file.content)
WriteFile(dir, f) ==
    [exists |-> TRUE,
     files |-> {g \in MkDir(dir).files : g.path # f.path} \cup {f}]

\* for file in files { .. }
RECURSIVE WriteAll(_, _)
WriteAll(dir, files) ==
    IF files = {} THEN dir
    ELSE LET f == CHOOSE g \in files : TRUE
         IN WriteAll(WriteFile(dir, f), files \ {f})

write_schematic_files_to_temp(dir, files) == WriteAll(MkDir(Wipe(dir)), files)

\* What distill_demo.py prints for a directory: a deterministic tool, its
\* document determined by the files it finds.
ToolOutput(dir) == [of |-> dir.files]

\* The text of a JSON document, and texts that are not JSON.
JsonText(doc) == <<"{", doc, "}">>
OtherTexts == {<<>>, <<"Traceback">>}

\* serde_json::from_str(&stdout)
from_str(text) ==
    IF Len(text) = 3 /\ text[1] = "{" /\ text[3] = "}"
    THEN [ok |-> TRUE, value |-> text[2]]
    ELSE [ok |-> FALSE]

\* What Command::output() returns once the subprocess has exited: its
\* status, its standard output and its standard error. A tool that fails
\* may have printed a document all the same.
NoOutput == [ran |-> FALSE]
ProcessOutputs(dir) ==
    {[ran |-> TRUE, success |-> st, stdout |-> out, stderr |-> e] :
        st \in BOOLEAN, out \in {JsonText(ToolOutput(dir))} \cup OtherTexts,
        e \in OtherTexts}

\* A run_distill_script that reads the standard output whatever the status.
run_distill_script_ParseFirst(output) ==
    IF from_str(output.stdout).ok
    THEN [ok |-> TRUE, err |-> NULL, message |-> <<>>,
          doc |-> from_str(output.stdout).value]
    ELSE [ok |-> FALSE, err |-> "TransformFailed",
          message |-> <<"Distill script failed: ">> \o output.stderr,
          doc |-> ToolOutput(MkDir(NoDir))]

\* run_distill_script from the output of the subprocess on: the status
\* check with its bail!, then the parse.
run_distill_script(output) ==
    IF ~output.success
    THEN [ok |-> FALSE, err |-> "TransformFailed",
          message |-> <<"Distill script failed: ">> \o output.stderr,
          doc |-> ToolOutput(MkDir(NoDir))]
    ELSE IF from_str(output.stdout).ok
    THEN [ok |-> TRUE, err |-> NULL, message |-> <<>>,
          doc |-> from_str(output.stdout).value]
    ELSE [ok |-> FALSE, err |-> "MalformedOutput",
          message |-> <<"Failed to parse distill script output as JSON">>,
          doc |-> ToolOutput(MkDir(NoDir))]

\* What is recorded of a distillation, and of the one before it when that
\* one succeeded on the same commit string.
DistillCall(c, files, ok, err, materialized, invoked, doc) ==
    [op |-> "distill_repo_schematics", commit |-> c, files |-> files,
     ok |-> ok, err |-> err, materialized |-> materialized,
     invoked |-> invoked, doc |-> doc,
     prev_files |-> IF call.op = "distill_repo_schematics" /\ call.ok
                       /\ call.commit = c
                    THEN call.files ELSE {},
     prev_doc |-> IF call.op = "distill_repo_schematics" /\ call.ok
                     /\ call.commit = c
                  THEN call.doc ELSE ToolOutput(MkDir(NoDir))]

\* distill_repo_schematics as one step: get_schematic_files (which acquires
\* the mirror), the empty check, the workspace, the tool.
distill_repo_schematics(c) ==
    LET after == CloneOrFetch(cache[MirrorPath], origin)
        acquired == CloneOrFetchErr(cache[MirrorPath], origin) = NULL
        files == TreeFiles(ResolveIn(after, c))
        k == workspace_path(MirrorSlug, c)
        nodoc == ToolOutput(MkDir(NoDir))
        full == write_schematic_files_to_temp(ws[k], files)
    IN /\ UNCHANGED <<origin, acq, job, cachevars>>
       /\ \/ /\ UNCHANGED <<cache, ws>>
             /\ call' = DistillCall(c, {}, FALSE, "git", FALSE, FALSE, nodoc)
                         @@ [output |-> NoOutput, message |-> <<>>]
          \/ /\ ~acquired
             /\ cache' = [cache EXCEPT ![MirrorPath] = after]
             /\ UNCHANGED ws
             /\ call' = DistillCall(c, {}, FALSE, "git", FALSE, FALSE, nodoc)
                         @@ [output |-> NoOutput, message |-> <<>>]
          \/ /\ acquired
             /\ files = {}
             /\ cache' = [cache EXCEPT ![MirrorPath] = after]
             /\ UNCHANGED ws
             /\ call' = DistillCall(c, files, FALSE, "NoInputFiles", FALSE,
                                    FALSE, nodoc)
                         @@ [output |-> NoOutput, message |-> <<>>]
          \/ /\ acquired
             /\ files # {}
             /\ cache' = [cache EXCEPT ![MirrorPath] = after]
             /\ \/ /\ \E d \in {ws[k], Wipe(ws[k])} : ws' = [ws EXCEPT ![k] = d]
                   /\ call' = DistillCall(c, files, FALSE, "workspace", FALSE,
                                          FALSE, nodoc)
                         @@ [output |-> NoOutput, message |-> <<>>]
                \/ /\ ws' = [ws EXCEPT ![k] = full]
                   /\ call' = DistillCall(c, files, FALSE, "spawn", TRUE,
                                          FALSE, nodoc)
                         @@ [output |-> NoOutput, message |-> <<>>]
                \/ /\ ws' = [ws EXCEPT ![k] = full]
                   /\ \E output \in ProcessOutputs(full) :
                         LET r == run_distill_script(output)
                         IN call' = DistillCall(c, files, r.ok, r.err, TRUE, TRUE,
                                               r.doc)
                                       @@ [output |-> output, message |-> r.message]

NextMirror ==
    \/ origin_push
    \/ \E b \in Branches : origin_set_default(b)
    \/ \E force_fresh \in BOOLEAN : get_repo_with_options(force_fresh)
    \/ get_git_repo
    \/ invalidate_cache
    \/ get_latest_commit
    \/ get_all_commits
    \/ \E c \in WorkCommits : distill_repo_schematics(c)
    \/ \E spec \in LookupSpecs : schematic_files_at(spec)
    \/ \E spec \in LookupSpecs : changed_schematic_files_at(spec)
    \/ \E spec \in LookupSpecs : get_commit_info(spec)

SpecMirror == Init /\ [][NextMirror]_vars

(***************************************************************************)
(* Properties of the mirror layer (SpecMirror). call describes the last    *)
(* call of the layer; the remote may have moved since.                     *)
(***************************************************************************)
\* C13 as stated: every successful acquisition without force_fresh of a
\* mirror that existed, through get_repo_with_options or get_git_repo,
\* leaves the local HEAD detached at the commit the remote's default branch
\* pointed to when the call fetched.
C13_HeadAtRemoteTip ==
    [][(origin' = origin
        /\ call'.op \in {"get_repo_with_options", "get_git_repo"}
        /\ call'.ok /\ ~call'.force_fresh /\ call'.existed)
       => /\ cache'[MirrorPath].detached
          /\ cache'[MirrorPath].head = origin.tips[origin.default]]_vars

\* C14: a get_repo_with_options with force_fresh that succeeds has cloned:
\* the directory was absent when the clone began and is afterwards exactly
\* what a clone of the remote yields, whatever it held before; this holds
\* for the second of two such calls in a row; and on an absent mirror the
\* call never fails in the deletion.
C14_ForceFreshClones ==
    [][(origin' = origin /\ call'.op = "get_repo_with_options"
        /\ call'.force_fresh)
       => /\ call'.ok => /\ call'.cloned
                         /\ call'.absent_at_clone
                         /\ cache'[MirrorPath] = Clone(origin)
          /\ (~call'.ok /\ call'.err = "delete") => call'.existed
          /\ ~call'.ok => (cache'[MirrorPath] = cache[MirrorPath]
                           \/ ~Exists(cache'[MirrorPath]))]_vars
C14_Witness ==
    /\ call.op = "get_repo_with_options" /\ call.force_fresh /\ call.ok
    /\ call.prev_fresh /\ call.existed /\ call.cloned /\ call.absent_at_clone
    /\ cache[MirrorPath].head = "m2" /\ ~cache[MirrorPath].detached

\* C20 as stated: get_all_commits returns every commit reachable from HEAD
\* exactly once, parents before children with the root first and HEAD last,
\* and a repeated call on the same HEAD returns the same sequence.
C20_OldestFirst ==
    (call.op = "get_all_commits" /\ call.ok) =>
        LET s == call.commits
        IN /\ {s[i] : i \in 1..Len(s)} = Reach(call.head)
           /\ Len(s) = Cardinality(Reach(call.head))
           /\ \A i, j \in 1..Len(s) : s[i] \in Parents(s[j]) => i < j
           /\ Parents(s[1]) = {}
           /\ s[Len(s)] = call.head
           /\ call.again # <<>> => call.again = s

(***************************************************************************)
(* The directory of an identity (SpecPath): get_cache_path applied to the  *)
(* identities owner/name whose owner and name are words of letters and     *)
(* hyphens that neither begin nor end with a hyphen.                       *)
(***************************************************************************)
MaxNameLen == 3
NameChars == {"a", "-"}
Names ==
    {w \in UNION {[1..n -> NameChars] : n \in 1..MaxNameLen} :
        w[1] # "-" /\ w[Len(w)] # "-"}
Identities == {owner \o <<"/">> \o name : owner \in Names, name \in Names}

\* Two lookups of the mirror directory, as get_repo_with_options makes them.
cache_path_lookup(a, b) ==
    /\ call' = [op |-> "get_cache_path", a |-> a, b |-> b,
                path_a |-> get_cache_path(a), path_b |-> get_cache_path(b),
                path_a_again |-> get_cache_path(a)]
    /\ UNCHANGED <<origin, cache, acq, ws, job, cachevars>>

NextPath == \E a \in Identities, b \in Identities : cache_path_lookup(a, b)

SpecPath == Init /\ [][NextPath]_vars

\* C15 as stated: the directory is a function of the identity, and two
\* different identities never have the same directory.
C15_PathInjective ==
    (call.op = "get_cache_path") =>
        /\ call.path_a = call.path_a_again
        /\ (call.a # call.b) => (call.path_a # call.path_b)

(***************************************************************************)
(* The mirror layer step by step (SpecAcquire): get_repo_with_options of   *)
(* two tasks on the same identity, one step per filesystem or git          *)
(* operation. Nothing in the function takes a lock.                        *)
(***************************************************************************)
\* The task has returned.
AcqDone(q, ok) == [pc |-> "done", force_fresh |-> q.force_fresh, ok |-> ok]

AcquireFrame == UNCHANGED <<origin, ws, job, call, cachevars>>

\* get_repo_with_options(repo_slug, force_fresh) is called.
acquire_begin(t, force_fresh) ==
    /\ acq[t].pc \in {"idle", "done"}
    /\ acq' = [acq EXCEPT ![t] = [pc |-> "force", force_fresh |-> force_fresh]]
    /\ UNCHANGED cache
    /\ AcquireFrame

\* if force_fresh && cache_path.exists() { remove_dir_all(..).await? }
acquire_force(t) ==
    /\ acq[t].pc = "force"
    /\ AcquireFrame
    /\ IF acq[t].force_fresh /\ Exists(cache[MirrorPath])
       THEN \/ /\ cache' = [cache EXCEPT ![MirrorPath] = NoDir]
               /\ acq' = [acq EXCEPT ![t].pc = "check"]
            \/ /\ UNCHANGED cache
               /\ acq' = [acq EXCEPT ![t] = AcqDone(acq[t], FALSE)]
       ELSE /\ UNCHANGED cache
            /\ acq' = [acq EXCEPT ![t].pc = "check"]

\* In the closure: if !cache_path.exists()
acquire_check(t) ==
    /\ acq[t].pc = "check"
    /\ AcquireFrame
    /\ UNCHANGED cache
    /\ acq' = [acq EXCEPT ![t].pc =
                  IF Exists(cache[MirrorPath]) THEN "open" ELSE "clone"]

\* RepoBuilder::clone starts: it refuses a directory that is there by now,
\* and otherwise creates it.
acquire_clone_begin(t) ==
    /\ acq[t].pc = "clone"
    /\ AcquireFrame
    /\ IF Exists(cache[MirrorPath])
       THEN /\ UNCHANGED cache
            /\ acq' = [acq EXCEPT ![t] = AcqDone(acq[t], FALSE)]
       ELSE /\ cache' = [cache EXCEPT ![MirrorPath] = PartialDir]
            /\ acq' = [acq EXCEPT ![t].pc = "cloning"]

\* RepoBuilder::clone ends: the clone is complete, or it failed and removed
\* what it had written; it fails when the directory was taken from under it.
acquire_clone_end(t) ==
    /\ acq[t].pc = "cloning"
    /\ AcquireFrame
    /\ \/ /\ cache[MirrorPath] = PartialDir
          /\ cache' = [cache EXCEPT ![MirrorPath] = Clone(origin)]
          /\ acq' = [acq EXCEPT ![t] = AcqDone(acq[t], TRUE)]
       \/ /\ cache' = [cache EXCEPT ![MirrorPath] =
                          IF @ = PartialDir THEN NoDir ELSE @]
          /\ acq' = [acq EXCEPT ![t] = AcqDone(acq[t], FALSE)]

\* Repository::open(&cache_path)
acquire_open(t) ==
    /\ acq[t].pc = "open"
    /\ AcquireFrame
    /\ UNCHANGED cache
    /\ acq' = [acq EXCEPT ![t] =
                  IF IsRepo(cache[MirrorPath])
                  THEN [acq[t] EXCEPT !.pc = "fetch"]
                  ELSE AcqDone(acq[t], FALSE)]

\* remote.fetch(..)?
acquire_fetch(t) ==
    /\ acq[t].pc = "fetch"
    /\ AcquireFrame
    /\ \/ /\ IsRepo(cache[MirrorPath])
          /\ cache' = [cache EXCEPT ![MirrorPath] = Fetch(@, origin)]
          /\ acq' = [acq EXCEPT ![t].pc = "set_head"]
       \/ /\ UNCHANGED cache
          /\ acq' = [acq EXCEPT ![t] = AcqDone(acq[t], FALSE)]

\* find_reference(..), peel_to_commit, repo.set_head_detached(..)?
acquire_set_head(t) ==
    /\ acq[t].pc = "set_head"
    /\ AcquireFrame
    /\ IF IsRepo(cache[MirrorPath]) /\ RemoteHead(cache[MirrorPath]) # NULL
       THEN /\ cache' = [cache EXCEPT ![MirrorPath] =
                            SetHeadDetached(@, RemoteHead(@))]
            /\ acq' = [acq EXCEPT ![t] = AcqDone(acq[t], TRUE)]
       ELSE /\ UNCHANGED cache
            /\ acq' = [acq EXCEPT ![t] = AcqDone(acq[t], FALSE)]

NextAcquire ==
    \/ origin_push
    \/ \E t \in Tasks, force_fresh \in BOOLEAN : acquire_begin(t, force_fresh)
    \/ \E t \in Tasks : acquire_force(t)
    \/ \E t \in Tasks : acquire_check(t)
    \/ \E t \in Tasks : acquire_clone_begin(t)
    \/ \E t \in Tasks : acquire_clone_end(t)
    \/ \E t \in Tasks : acquire_open(t)
    \/ \E t \in Tasks : acquire_fetch(t)
    \/ \E t \in Tasks : acquire_set_head(t)

SpecAcquire == Init /\ [][NextAcquire]_vars

\* The task is between the entry and the return of get_repo_with_options,
\* where it deletes, clones, opens, fetches or sets HEAD.
InSection(t) == acq[t].pc \notin {"idle", "done"}

\* C16 as stated: at most one get_repo_with_options at a time is inside its
\* delete/clone/fetch/set-head section for the identity, and no task deletes
\* or writes the directory while another task is working in it.
C16_MutualExclusion ==
    [][/\ \A t, u \in Tasks : (InSection(t) /\ InSection(u)) => t = u
       /\ \A t, u \in Tasks :
             (t # u /\ acq[u].pc \in {"cloning", "fetch", "set_head"}
              /\ acq'[u] = acq[u] /\ acq'[t] # acq[t])
             => cache' = cache]_vars

\* C18: taken one after another, a distill_repo_schematics that got as far
\* as the tool leaves in the workspace of its key exactly the files it was
\* given, whatever the workspace held before, and returns on success what
\* the tool prints for them; a second run on the same key with the same
\* files returns the same document as the first.
C18_DistillIdempotent ==
    [][(origin' = origin /\ call'.op = "distill_repo_schematics"
        /\ call'.materialized)
       => LET dir == ws'[workspace_path(MirrorSlug, call'.commit)]
          IN /\ Exists(dir)
             /\ dir.files = call'.files
             /\ call'.ok => call'.doc = ToolOutput(dir)
             /\ (call'.ok /\ call'.prev_files = call'.files)
                   => call'.doc = call'.prev_doc]_vars
C18_Witness ==
    /\ call.op = "distill_repo_schematics" /\ call.ok /\ call.commit = "HEAD"
    /\ call.prev_files # {} /\ call.prev_files # call.files
    /\ \E f \in call.prev_files : \A g \in call.files : g.path # f.path
    /\ ws[workspace_path(MirrorSlug, "HEAD")].files = call.files

\* C19 as stated: a distill_repo_schematics that finds no schematic file
\* fails with NoInputFiles having created, deleted or written no directory,
\* neither the workspace nor the mirror, and having started no subprocess.
C19_EmptyBeforeAnyWork ==
    [][(origin' = origin /\ call'.op = "distill_repo_schematics"
        /\ call'.err = "NoInputFiles")
       => /\ ~call'.ok /\ ~call'.invoked /\ ~call'.materialized
          /\ ws' = ws
          /\ cache' = cache
          /\ UNCHANGED cachevars]_vars

(***************************************************************************)
(* The distillation step by step (SpecWork): distill_repo_schematics of    *)
(* two tasks, one step per await point of write_schematic_files_to_temp    *)
(* and run_distill_script. Nothing in these functions takes a lock.        *)
(***************************************************************************)
JobDone(q, ok, doc) ==
    [pc |-> "done", commit |-> q.commit, files |-> q.files, ok |-> ok,
     doc |-> doc]

WorkspaceOf(q) == workspace_path(MirrorSlug, q.commit)

\* distill_repo_schematics(repo_slug, commit_hash) is called.
job_begin(t, c) ==
    /\ job[t].pc \in {"idle", "done"}
    /\ job' = [job EXCEPT ![t] = [pc |-> "files", commit |-> c, files |-> {},
                                  todo |-> {}]]
    /\ UNCHANGED <<origin, cache, acq, ws, call, cachevars>>

\* git::get_schematic_files(..).await, and the empty check.
job_files(t) ==
    /\ job[t].pc = "files"
    /\ UNCHANGED <<origin, acq, ws, call, cachevars>>
    /\ LET after == CloneOrFetch(cache[MirrorPath], origin)
           files == TreeFiles(ResolveIn(after, job[t].commit))
       IN \/ /\ UNCHANGED cache
             /\ job' = [job EXCEPT ![t] = JobDone(job[t], FALSE, NULL)]
          \/ /\ cache' = [cache EXCEPT ![MirrorPath] = after]
             /\ job' = [job EXCEPT ![t] =
                          IF CloneOrFetchErr(cache[MirrorPath], origin) # NULL
                          THEN JobDone(job[t], FALSE, NULL)
                          ELSE IF files = {} THEN JobDone(job[t], FALSE, NULL)
                          ELSE [job[t] EXCEPT !.pc = "wipe", !.files = files]]

\* if temp_dir.exists() { remove_dir_all(&temp_dir).await? }
job_wipe(t) ==
    /\ job[t].pc = "wipe"
    /\ UNCHANGED <<origin, cache, acq, call, cachevars>>
    /\ \/ /\ ws' = [ws EXCEPT ![WorkspaceOf(job[t])] = Wipe(@)]
          /\ job' = [job EXCEPT ![t].pc = "mkdir"]
       \/ /\ Exists(ws[WorkspaceOf(job[t])])
          /\ UNCHANGED ws
          /\ job' = [job EXCEPT ![t] = JobDone(job[t], FALSE, NULL)]

\* create_dir_all(&temp_dir).await?
job_mkdir(t) ==
    /\ job[t].pc = "mkdir"
    /\ UNCHANGED <<origin, cache, acq, call, cachevars>>
    /\ ws' = [ws EXCEPT ![WorkspaceOf(job[t])] = MkDir(@)]
    /\ job' = [job EXCEPT ![t].pc = "write", ![t].todo = job[t].files]

\* One turn of the loop: create_dir_all(parent), fs::write.
job_write(t) ==
    /\ job[t].pc = "write"
    /\ UNCHANGED <<origin, cache, acq, call, cachevars>>
    /\ LET f == CHOOSE g \in job[t].todo : TRUE
           rest == job[t].todo \ {f}
       IN /\ ws' = [ws EXCEPT ![WorkspaceOf(job[t])] = WriteFile(@, f)]
          /\ job' = [job EXCEPT ![t].todo = rest,
                                ![t].pc = IF rest = {} THEN "run" ELSE "write"]

\* run_distill_script: the checks, and Command::new(..).output() starts.
job_run_begin(t) ==
    /\ job[t].pc = "run"
    /\ UNCHANGED <<origin, cache, acq, ws, call, cachevars>>
    /\ \/ job' = [job EXCEPT ![t].pc = "running"]
       \/ job' = [job EXCEPT ![t] = JobDone(job[t], FALSE, NULL)]

\* The subprocess exits: it has read the directory as it is by now.
job_run_end(t) ==
    /\ job[t].pc = "running"
    /\ UNCHANGED <<origin, cache, acq, ws, call, cachevars>>
    /\ \/ /\ Exists(ws[WorkspaceOf(job[t])])
          /\ job' = [job EXCEPT ![t] =
                       JobDone(job[t], TRUE, ToolOutput(ws[WorkspaceOf(job[t])]))]
       \/ job' = [job EXCEPT ![t] = JobDone(job[t], FALSE, NULL)]

NextWork ==
    \/ origin_push
    \/ \E t \in Tasks, c \in WorkCommits : job_begin(t, c)
    \/ \E t \in Tasks : job_files(t)
    \/ \E t \in Tasks : job_wipe(t)
    \/ \E t \in Tasks : job_mkdir(t)
    \/ \E t \in Tasks : job_write(t)
    \/ \E t \in Tasks : job_run_begin(t)
    \/ \E t \in Tasks : job_run_end(t)

SpecWork == Init /\ [][NextWork]_vars

\* C17 as stated: while the tool of an attempt runs, the workspace of its
\* key holds exactly the files that attempt wrote, and the document it
\* returns is the tool's output for them.
C17_WorkspaceIsolated ==
    \A t \in Tasks :
        /\ job[t].pc = "running"
              => /\ Exists(ws[WorkspaceOf(job[t])])
                 /\ ws[WorkspaceOf(job[t])].files = job[t].files
        /\ (job[t].pc = "done" /\ job[t].ok)
              => job[t].doc = [of |-> job[t].files]

(***************************************************************************)
(* The scanner and the extractor on trees (SpecScan):                      *)
(* has_schematic_changes, get_changed_schematic_files and the tree walk of *)
(* get_schematic_files, applied to a commit given by its tree and the      *)
(* trees of its parents.                                                   *)
(***************************************************************************)
\* ".kicad_sch", character by character.
Suffix == <<".", "k", "i", "c", "a", "d", "_", "s", "c", "h">>

\* s.ends_with(suffix)
ends_with(s, suffix) ==
    /\ Len(s) >= Len(suffix)
    /\ SubSeq(s, Len(s) - Len(suffix) + 1, Len(s)) = suffix

\* The places of a tree: a/x.kicad_sch, b.txt, d.kicad_sch/n.txt (a
\* directory whose name ends with the suffix) and y.kicad_sch at the root.
FileSlots == {"ax", "b", "dn", "y"}

\* The root string tree.walk hands to the callback: empty at the top level,
\* the directories with a trailing '/' below it.
SlotDir(s) ==
    CASE s = "ax" -> <<"a", "/">>
      [] s = "dn" -> <<"d">> \o Suffix \o <<"/">>
      [] OTHER -> <<>>

\* entry.name()
SlotName(s) ==
    CASE s = "ax" -> <<"x">> \o Suffix
      [] s = "b" -> <<"b", ".", "t", "x", "t">>
      [] s = "dn" -> <<"n", ".", "t", "x", "t">>
      [] s = "y" -> <<"y">> \o Suffix

\* What a place holds: nothing, a regular file or a symbolic link (both are
\* blobs to entry.kind()). readable: entry.to_object and into_blob succeed.
Absent == [kind |-> "none"]
File(id) == [kind |-> "Blob", mode |-> "100644", id |-> id, readable |-> TRUE]
Link(id) == [kind |-> "Blob", mode |-> "120000", id |-> id, readable |-> TRUE]

SlotValues(s) ==
    CASE s = "ax" -> {Absent, File("v1"), File("v2"), Link("l1")}
      [] s = "b" -> {Absent, File("v1"), File("v2")}
      [] s = "dn" -> {Absent, File("v1")}
      [] s = "y" -> {Absent, File("bad")}

\* commit.tree(): the trees of a complete object database.
Trees ==
    {t \in [FileSlots -> UNION {SlotValues(s) : s \in FileSlots}] :
        \A s \in FileSlots : t[s] \in SlotValues(s)}

\* blob.content(), byte by byte; xFF is a byte that is not valid UTF-8.
BlobContent(id) ==
    CASE id = "v1" -> <<"v", "1">>
      [] id = "v2" -> <<"v", "2">>
      [] id = "l1" -> <<"y">> \o Suffix
      [] id = "bad" -> <<"v", "xFF">>

\* String::from_utf8_lossy(bytes).to_string(): xC3 xA9 is the two-byte
\* encoding of one character; xC3 without its second byte, xA9 without its
\* first and xFF are replaced by U+FFFD.
from_utf8_lossy(bytes) ==
    LET decoded ==
          [i \in 1..Len(bytes) |->
             IF bytes[i] = "xC3" /\ i < Len(bytes) /\ bytes[i + 1] = "xA9"
             THEN "e_acute"
             ELSE IF bytes[i] = "xA9" /\ i > 1 /\ bytes[i - 1] = "xC3"
                  THEN "second byte"
             ELSE IF bytes[i] \in {"xC3", "xA9", "xFF"} THEN "uFFFD"
             ELSE bytes[i]]
    IN SelectSeq(decoded, LAMBDA ch : ch # "second byte")

\* One (root, entry) pair of a walk.
FileEntry(t, s) ==
    IF t[s] = Absent THEN [kind |-> "none"]
    ELSE [dir |-> SlotDir(s), name |-> SlotName(s), kind |-> t[s].kind,
          id |-> t[s].id, readable |-> t[s].readable]
DirEntry(t, s, name) ==
    IF t[s] = Absent THEN [kind |-> "none"]
    ELSE [dir |-> <<>>, name |-> name, kind |-> "Tree"]
IsEntry(e) == e.kind # "none"

\* tree.walk(TreeWalkMode::PreOrder, ..): every entry of the tree and of its
\* subtrees, a directory before its entries, in the order of the names.
TreeWalk(t) ==
    SelectSeq(<<DirEntry(t, "ax", <<"a">>), FileEntry(t, "ax"),
                FileEntry(t, "b"),
                DirEntry(t, "dn", <<"d">> \o Suffix), FileEntry(t, "dn"),
                FileEntry(t, "y")>>, IsEntry)

\* A delta of a diff: libgit2 gives both sides the path of the file, also
\* when the file was added or deleted.
Delta(status, path) ==
    [status |-> status, old_file |-> [path |-> path], new_file |-> [path |-> path]]

\* The deltas of one place. Without GIT_DIFF_INCLUDE_TYPECHANGE a file that
\* became a link (or a link a file) is a deletion followed by an addition.
SlotDeltas(old, new, s) ==
    LET path == SlotDir(s) \o SlotName(s)
    IN IF old[s] = new[s] THEN <<>>
       ELSE IF old[s] = Absent THEN <<Delta("Added", path)>>
       ELSE IF new[s] = Absent THEN <<Delta("Deleted", path)>>
       ELSE IF old[s].mode # new[s].mode
            THEN <<Delta("Deleted", path), Delta("Added", path)>>
       ELSE <<Delta("Modified", path)>>

\* repo.diff_tree_to_tree(Some(&tree1), Some(&tree2), None).deltas(), in the
\* order of the paths.
Diff(tree1, tree2) ==
    SlotDeltas(tree1, tree2, "ax") \o SlotDeltas(tree1, tree2, "b")
        \o SlotDeltas(tree1, tree2, "dn") \o SlotDeltas(tree1, tree2, "y")

\* What tree.walk returns after a callback answered Abort: git2 drops the
\* return code of git_tree_walk.
WalkResult_Propagate(aborted) == IF aborted THEN "Err" ELSE "Ok"
WalkResult(aborted) == "Ok"

\* commit.parents().next()
FirstParent(parents) == parents[1]

\* The callback of has_schematic_changes on a root commit.
IsSchematicBlob(e) == ends_with(e.name, Suffix) /\ e.kind = "Blob"

\* A delta one of whose paths ends with the suffix.
IsSchematicDelta(d) ==
    ends_with(d.old_file.path, Suffix) \/ ends_with(d.new_file.path, Suffix)

has_schematic_changes(parents, tree) ==
    IF parents # <<>>
    THEN LET diff == Diff(FirstParent(parents), tree)
         IN [ok |-> TRUE,
             value |-> \E i \in 1..Len(diff) : IsSchematicDelta(diff[i])]
    ELSE LET w == TreeWalk(tree)
             has == \E i \in 1..Len(w) : IsSchematicBlob(w[i])
         IN IF WalkResult(has) = "Ok" THEN [ok |-> TRUE, value |-> has]
            ELSE [ok |-> FALSE, value |-> FALSE]

\* changed_files.contains(&path)
Contains(v, x) == \E i \in 1..Len(v) : v[i] = x

\* for delta in diff.deltas() { .. }
RECURSIVE ChangedFromDeltas(_, _)
ChangedFromDeltas(deltas, changed_files) ==
    IF deltas = <<>> THEN changed_files
    ELSE LET new == Head(deltas).new_file.path
             old == Head(deltas).old_file.path
             pushed == IF ends_with(new, Suffix)
                       THEN Append(changed_files, new) ELSE changed_files
         IN ChangedFromDeltas(Tail(deltas),
                IF ends_with(old, Suffix) /\ ~Contains(pushed, old)
                THEN Append(pushed, old) ELSE pushed)

\* A path that leaves the directories out.
EntryPath_NameOnly(e) == e.name

\* if dir.is_empty() { name } else { format!("{}{}", dir, name) }
EntryPath(e) == IF e.dir = <<>> THEN e.name ELSE e.dir \o e.name

\* A walk that lists every entry whose name ends with the suffix, whatever
\* its kind.
ChangedFromWalk_AnyKind(w, changed_files) ==
    LET named == SelectSeq(w, LAMBDA e : ends_with(e.name, Suffix))
    IN changed_files \o [i \in 1..Len(named) |-> EntryPath(named[i])]

\* The walk of a root commit: the paths of the schematic blobs.
RECURSIVE ChangedFromWalk(_, _)
ChangedFromWalk(w, changed_files) ==
    IF w = <<>> THEN changed_files
    ELSE ChangedFromWalk(Tail(w),
             IF IsSchematicBlob(Head(w))
             THEN Append(changed_files, EntryPath(Head(w))) ELSE changed_files)

\* get_changed_schematic_files, after the commit is resolved.
get_changed_schematic_files(parents, tree) ==
    IF parents # <<>>
    THEN ChangedFromDeltas(Diff(FirstParent(parents), tree), <<>>)
    ELSE ChangedFromWalk(TreeWalk(tree), <<>>)

\* The walk of get_schematic_files: a snapshot per schematic blob that can
\* be read.
RECURSIVE FilesFromWalk(_, _)
FilesFromWalk(w, files) ==
    IF w = <<>> THEN files
    ELSE FilesFromWalk(Tail(w),
             IF IsSchematicBlob(Head(w)) /\ Head(w).readable
             THEN Append(files,
                      [path |-> EntryPath(Head(w)),
                       content |-> from_utf8_lossy(BlobContent(Head(w).id))])
             ELSE files)

\* get_schematic_files, after the commit is resolved.
get_schematic_files(tree) == FilesFromWalk(TreeWalk(tree), <<>>)

\* The second parents of the merges.
SecondParents ==
    {t \in Trees : t["ax"] \in {Absent, File("v1")} /\ t["b"] = Absent
                   /\ t["dn"] = Absent /\ t["y"] = Absent}

\* The commits the functions are applied to: root commits, commits with one
\* parent and merges.
ParentLists ==
    {<<>>} \cup {<<p>> : p \in Trees}
           \cup {<<p, q>> : p \in Trees, q \in SecondParents}
ScanInputs ==
    {[op |-> "commit", parents |-> p, tree |-> t] : p \in ParentLists, t \in Trees}

InitScan ==
    /\ schematics = {}
    /\ parts = {}
    /\ next_id = 1
    /\ tx = [w \in Writers |-> IdleTx]
    /\ rd = IdleRd
    /\ last = NoCall
    /\ acked = {}
    /\ req = [s \in Slots |-> IdleReq]
    /\ remote = "c1"
    /\ mirror = NULL
    /\ origin = [default |-> "main",
                 tips |-> [main |-> "c1", master |-> NULL, dev |-> "b1"]]
    /\ cache = [p \in {MirrorPath} |-> NoDir]
    /\ acq = [t \in Tasks |-> IdleAcq]
    /\ ws = [k \in {workspace_path(MirrorSlug, c) : c \in WorkCommits} |-> NoDir]
    /\ job = [t \in Tasks |-> IdleJob]
    /\ call \in ScanInputs

ScanFrame == UNCHANGED <<origin, cache, acq, ws, job, cachevars>>

apply_has_schematic_changes ==
    /\ call.op = "commit"
    /\ call' = [op |-> "has_schematic_changes", parents |-> call.parents,
                tree |-> call.tree,
                result |-> has_schematic_changes(call.parents, call.tree)]
    /\ ScanFrame

apply_get_changed_schematic_files ==
    /\ call.op = "commit"
    /\ call' = [op |-> "get_changed_schematic_files", parents |-> call.parents,
                tree |-> call.tree,
                result |-> get_changed_schematic_files(call.parents, call.tree)]
    /\ ScanFrame

apply_get_schematic_files ==
    /\ call.op = "commit"
    /\ call' = [op |-> "get_schematic_files", parents |-> call.parents,
                tree |-> call.tree, result |-> get_schematic_files(call.tree)]
    /\ ScanFrame

NextScan ==
    \/ apply_has_schematic_changes
    \/ apply_get_changed_schematic_files
    \/ apply_get_schematic_files

SpecScan == InitScan /\ [][NextScan]_vars

\* The paths of a sequence of deltas, both sides.
DeltaPaths(diff) ==
    {diff[i].old_file.path : i \in 1..Len(diff)}
        \cup {diff[i].new_file.path : i \in 1..Len(diff)}

\* The path of a place.
SlotPath(s) == SlotDir(s) \o SlotName(s)

\* C21: has_schematic_changes returns a value for every commit; for a commit
\* with parents the value says whether some delta of the diff against the
\* first parent has an old or new path ending with the suffix, for a root
\* commit whether some blob of its tree has a path ending with the suffix.
C21_Classification ==
    (call.op = "has_schematic_changes") =>
        /\ call.result.ok
        /\ call.result.value =
              IF Len(call.parents) >= 1
              THEN \E p \in DeltaPaths(Diff(call.parents[1], call.tree)) :
                      ends_with(p, Suffix)
              ELSE \E s \in FileSlots :
                      /\ call.tree[s] # Absent /\ call.tree[s].kind = "Blob"
                      /\ ends_with(SlotPath(s), Suffix)
C21_Witness ==
    /\ call.op = "has_schematic_changes" /\ call.parents = <<>>
    /\ call.tree["ax"] = File("v1") /\ call.tree["b"] = File("v1")
    /\ call.tree["y"] = Absent /\ call.tree["dn"] = Absent
    /\ call.result = [ok |-> TRUE, value |-> TRUE]

\* C22 as stated: for a commit with a parent, get_changed_schematic_files
\* returns every path ending with the suffix that is on the old or the new
\* side of a delta of the diff against the first parent, nothing else, and
\* no path twice.
C22_ChangedFilesExact ==
    (call.op = "get_changed_schematic_files" /\ call.parents # <<>>) =>
        LET r == call.result
        IN /\ {r[i] : i \in 1..Len(r)} =
                 {p \in DeltaPaths(Diff(call.parents[1], call.tree)) :
                     ends_with(p, Suffix)}
           /\ \A i, j \in 1..Len(r) : r[i] = r[j] => i = j

\* The segments of the path of a place, from the repository root.
SlotSegments(s) ==
    CASE s = "ax" -> << <<"a">>, <<"x">> \o Suffix >>
      [] s = "b" -> << <<"b", ".", "t", "x", "t">> >>
      [] s = "dn" -> << <<"d">> \o Suffix, <<"n", ".", "t", "x", "t">> >>
      [] s = "y" -> << <<"y">> \o Suffix >>

\* Segments joined with '/'.
RECURSIVE JoinPath(_)
JoinPath(segs) ==
    IF Len(segs) = 1 THEN segs[1]
    ELSE segs[1] \o <<"/">> \o JoinPath(Tail(segs))

WorkFairness ==
    \A t \in Tasks :
        /\ WF_vars(job_files(t))
        /\ WF_vars(job_wipe(t))
        /\ WF_vars(job_mkdir(t))
        /\ WF_vars(job_write(t))
        /\ WF_vars(job_run_begin(t))

SpecWorkLive == SpecWork /\ WorkFairness

\* C24 as stated: every distill_repo_schematics that was called eventually
\* returns, also when the subprocess never exits.
C24_DistillCompletes ==
    \A t \in Tasks : (job[t].pc \notin {"idle", "done"}) ~> (job[t].pc = "done")

(***************************************************************************)
(* The mirror after an interrupted clone (SpecRepair): acquisitions taken  *)
(* one after another on a directory a clone may have left unfinished,      *)
(* while the remote advances, renames or deletes its branch main.          *)
(***************************************************************************)
NextRepair ==
    \/ origin_push
    \/ origin_rename_branch("main", "master")
    \/ origin_delete_branch("main")
    \/ \E b \in Branches : origin_set_default(b)
    \/ clone_interrupted
    \/ \E force_fresh \in BOOLEAN : get_repo_with_options(force_fresh)
    \/ get_git_repo
    \/ invalidate_cache

SpecRepair == Init /\ [][NextRepair]_vars

\* A mirror that is ready for use: a repository whose HEAD is at a commit.
Ready(d) == IsRepo(d) /\ d.head # NULL

\* C25 as stated: a get_repo_with_options without force_fresh on a directory
\* an interrupted clone left behind, with no operation on the remote or the
\* disk failing, succeeds and leaves a ready mirror.
C25_DamagedMirrorRepaired ==
    [][(origin' = origin /\ call'.op = "get_repo_with_options"
        /\ ~call'.force_fresh /\ call'.damaged /\ call'.err # "git")
       => /\ call'.ok
          /\ Ready(cache'[MirrorPath])]_vars

\* C26: a get_repo_with_options that refreshes an existing repository, with
\* no operation on the remote or the disk failing, sets HEAD, detached, to
\* the commit of the first of origin/HEAD, origin/main, origin/master that
\* exists after the fetch; when none exists it fails with "Failed to find
\* remote HEAD" and HEAD stays where it was.
C26_DefaultBranchFallback ==
    [][(origin' = origin /\ call'.op = "get_repo_with_options"
        /\ ~call'.force_fresh /\ IsRepo(cache[MirrorPath]) /\ call'.err # "git")
       => LET d == cache'[MirrorPath]
              target == IF d.origin_head # NULL THEN d.tracking[d.origin_head]
                        ELSE IF d.tracking["main"] # NULL THEN d.tracking["main"]
                        ELSE IF d.tracking["master"] # NULL THEN d.tracking["master"]
                        ELSE NULL
          IN /\ \A b \in Branches : origin.tips[b] # NULL => d.tracking[b] = origin.tips[b]
             /\ target # NULL => call'.ok /\ d.head = target /\ d.detached
             /\ target = NULL => /\ ~call'.ok /\ call'.err = "NoDefaultBranch"
                                 /\ d.head = cache[MirrorPath].head
                                 /\ d.detached = cache[MirrorPath].detached]_vars
\* The refresh of a repository without origin/HEAD and with both origin/main
\* and origin/master, at different commits: HEAD is at origin/main.
C26_Witness ==
    /\ call.op = "get_repo_with_options" /\ call.ok /\ ~call.force_fresh
    /\ call.existed
    /\ cache[MirrorPath].origin_head = NULL
    /\ cache[MirrorPath].tracking["main"] # NULL
    /\ cache[MirrorPath].tracking["master"] # NULL
    /\ cache[MirrorPath].tracking["main"] # cache[MirrorPath].tracking["master"]
    /\ cache[MirrorPath].head = cache[MirrorPath].tracking["main"]
    /\ cache[MirrorPath].detached

\* C27: when the subprocess exits with a status that is not success,
\* distill_repo_schematics fails with the error that carries its standard
\* error, and returns no document, whatever its standard output holds.
C27_NonZeroExitFails ==
    [][(call'.op = "distill_repo_schematics" /\ call'.output.ran
        /\ ~call'.output.success)
       => /\ ~call'.ok
          /\ call'.err = "TransformFailed"
          /\ call'.message = <<"Distill script failed: ">> \o call'.output.stderr
          /\ call'.doc = ToolOutput(MkDir(NoDir))]_vars
C27_Witness ==
    /\ call.op = "distill_repo_schematics" /\ call.output.ran
    /\ ~call.output.success
    /\ call.output.stdout = JsonText([of |-> call.files])
    /\ call.output.stderr = <<"Traceback">>
    /\ ~call.ok /\ call.err = "TransformFailed"
    /\ call.message = <<"Distill script failed: ", "Traceback">>

\* C28: get_schematic_files, get_changed_schematic_files and get_commit_info
\* on a mirror they acquired fail when the string names no commit of the
\* mirror, with the not-found error when it names nothing at all; when they
\* succeed, the value is that of the commit the string names.
C28_UnresolvedFails ==
    [][(/\ origin' = origin
        /\ call'.op \in {"get_schematic_files", "get_changed_schematic_files",
                         "get_commit_info"}
        /\ call'.err # "git")
       => LET d == cache'[MirrorPath]
              named == CASE call'.spec = "HEAD" -> d.head
                         [] call'.spec = "origin/main" -> d.tracking["main"]
                         [] call'.spec = "origin/master" -> d.tracking["master"]
                         [] call'.spec \in GitCommits ->
                               IF \E b \in Branches :
                                     /\ origin.tips[b] # NULL
                                     /\ call'.spec \in Reach(origin.tips[b])
                               THEN call'.spec ELSE NULL
                         [] OTHER -> NULL
          IN /\ named = NULL => ~call'.ok /\ call'.value = {}
             /\ (named = NULL /\ call'.spec # "t1") => call'.err = "NotFound"
             /\ named # NULL =>
                   /\ call'.ok /\ call'.commit = named
                   /\ call'.op = "get_schematic_files"
                         => call'.value = TreeFiles(named)
                   /\ call'.op = "get_changed_schematic_files"
                         => call'.value = ChangedPaths(named)
                   /\ call'.op = "get_commit_info"
                         => call'.value = {CommitInfo(named)}]_vars
C28_Witness ==
    /\ call.op = "get_commit_info" /\ call.spec = "m2"
    /\ ~call.ok /\ call.err = "NotFound" /\ call.value = {}
    /\ origin.tips["main"] = "c1"
    /\ cache[MirrorPath].head = "c1"

(***************************************************************************)
(* The round trip of the full record, statement by statement.              *)
(***************************************************************************)
\* A retrieve_schematic of the key of the last completed call, a successful
\* store_schematic, returns now; no call completed in between.
RetrieveAfterStore ==
    /\ last.op = "store_schematic" /\ last.ok
    /\ last'.op = "retrieve_schematic" /\ last'.ok
    /\ last'.repo_url = last.repo_url
    /\ last'.commit_hash = last.commit_hash

\* C29: once store_schematic(r, c, fields, parts) has succeeded, a
\* retrieve_schematic(r, c) that reads the row it left returns a record, not
\* None, with the same repo_url, commit_hash and image, and with every stored
\* part under its part_uuid with the stored blurb and properties.
C29_RoundTrip ==
    [][RetrieveAfterStore =>
          /\ rd.pc = "parts"
          /\ rd.sch \in schematics =>
                LET v == last'.value
                    a == last.args
                IN /\ v.repo_url = last.repo_url
                   /\ v.commit_hash = last.commit_hash
                   /\ v.schematic_image = a.schematic_image
                   /\ \A u \in DOMAIN a.parts :
                         /\ u \in DOMAIN v.parts
                         /\ v.parts[u].part_uuid = u
                         /\ v.parts[u].blurb = a.parts[u].blurb
                         /\ v.parts[u].properties = a.parts[u].properties]_vars
C29_Witness ==
    /\ last.op = "retrieve_schematic" /\ last.ok
    /\ RowsAt(schematics, last.repo_url, last.commit_hash) # {}
    /\ \E row \in RowsAt(schematics, last.repo_url, last.commit_hash) :
          /\ row.schematic_image = "img1"
          /\ last.value =
                FullSchematic(row,
                    [u \in {"u1"} |-> [part_uuid |-> "u1", blurb |-> "pb1",
                                       properties |-> "props1"]])

\* C30: whenever a distill or init_repo request that names its commit is
\* answered with cached = true, the document of the response is the
\* distillation of the files at the commit the name resolves to in the
\* mirror as it stands at the response.
C30_CachedIsCurrent ==
    [][(/\ Obs.pc # "done"
        /\ req'["s1"].pc = "done" /\ Distilling(req'["s1"])
        /\ req'["s1"].arg # NULL
        /\ req'["s1"].status = "ok" /\ req'["s1"].cached = TRUE
        /\ mirror' # NULL)
       => req'["s1"].distilled =
             DistillDoc(SchematicFilesAt(Revparse(req'["s1"].arg, mirror')))]_vars

\* C31: the step with which a request fails in extraction, materialization,
\* the subprocess or the parsing of its output leaves both tables as they
\* were and the request has stored nothing; and a distill or init_repo probe
\* that finds no document under the key goes on to the pipeline.
C31_FailedDistillWritesNothing ==
    [][/\ (/\ Obs.pc \in {"extract", "miss_files", "transform"}
           /\ req'["s1"].pc = "done"
           /\ req'["s1"].status # "ok")
          => /\ schematics' = schematics /\ parts' = parts
             /\ req'["s1"].stored = NULL
       /\ (/\ Obs.pc = "probe" /\ Distilling(Obs)
           /\ req'["s1"].pc # "probe"
           /\ SelectDistilledJson(schematics, RepoUrl(Obs.repo), Obs.commit)
                = NULL)
          => req'["s1"].pc \in {"extract", "miss_files"}]_vars
C31_Witness ==
    /\ Obs.pc = "done" /\ Obs.handler = "distill_schematics"
    /\ Obs.probe = "miss" /\ Obs.invoked
    /\ Obs.status = "error" /\ Obs.stored = NULL
    /\ SelectDistilledJson(schematics, RepoUrl(Obs.repo), Obs.commit) = NULL

\* The document of the rows (at most one) of a key; NULL without a row.
DocOf(rows) == IF rows = {} THEN NULL ELSE (CHOOSE row \in rows : TRUE).distilled_json

\* The columns store_schematic binds, of the rows (at most one) of a key.
BoundOf(rows) ==
    IF rows = {} THEN [col \in SchematicColumns |-> NULL]
    ELSE LET row == CHOOSE x \in rows : TRUE
         IN [col \in SchematicColumns |-> row[col]]

\* C32: whichever of store_distilled_json and store_schematic commits second
\* on a key, with or without a row there before, the key has one row
\* afterwards; a committed store_schematic leaves in it the columns it bound
\* and the distilled document that was there, and a committed
\* store_distilled_json leaves in it its document and the bound columns that
\* were there.
C32_BothWritersKept ==
    [][LET before == RowsAt(schematics, last'.repo_url, last'.commit_hash)
           after == RowsAt(schematics', last'.repo_url, last'.commit_hash)
       IN /\ (last'.op = "store_schematic" /\ last'.ok) =>
                /\ Cardinality(after) = 1
                /\ DocOf(after) = DocOf(before)
                /\ BoundOf(after) = [col \in SchematicColumns |-> last'.args[col]]
          /\ (last'.op = "store_distilled_json" /\ last'.ok) =>
                /\ Cardinality(after) = 1
                /\ DocOf(after) = last'.value
                /\ BoundOf(after) = BoundOf(before)]_vars
\* A store_schematic that committed after a store_distilled_json of its key
\* while the other writer's transaction on the key waits.
C32_Witness ==
    /\ last.op = "store_schematic" /\ last.ok /\ last.args = HookInput
    /\ \E row \in RowsAt(schematics, last.repo_url, last.commit_hash) :
          /\ row.distilled_json = "d2"
          /\ row.blurb = "b1" /\ row.description = "desc1"
          /\ row.git_message = "m1" /\ row.commit_date = "t1"
    /\ \E w \in Writers : tx[w].pc = "parts"

(***************************************************************************)
(* SpecHooked: the distill flow of one client over keys under which the    *)
(* hook (generate_and_store_overview) stores its rows.                     *)
(***************************************************************************)
\* The commit strings of the requests: a hash with schematics and HEAD.
HookedExprs == {"c1", "HEAD"}

\* generate_and_store_overview: store_schematic with date, message, blurb and
\* description, no image, no summary, no overview and no parts.
generate_and_store_overview(c) ==
    store_schematic(RepoUrl(FlowSlug), c, HookInput)

NextHooked ==
    \/ push
    \/ \E c \in HookedExprs : generate_and_store_overview(c)
    \/ \E c \in HookedExprs : distill_schematics("s1", c)
    \/ distill_schematics_probe("s1")
    \/ distill_schematics_store("s1")
    \/ \E copt \in HookedExprs : init_repo("s1", copt)
    \/ init_repo_probe("s1")
    \/ init_repo_hit_files("s1")
    \/ init_repo_miss_files("s1")
    \/ init_repo_store("s1")
    \/ Extract("s1")
    \/ Transform("s1")

SpecHooked == Init /\ [][NextHooked]_vars

\* The rows of the key of the observed request.
ObsRows(rows) == RowsAt(rows, RepoUrl(Obs.repo), Obs.commit)

\* C33: when the key of a distill or init_repo request has a row without a
\* distilled document, the probe (its query running) is a miss and the
\* request goes on to the pipeline; and when the request then stores its
\* document, the key still has that one row, with the same id, blurb,
\* description, date and message, and the document in it.
C33_DoclessRowIsMiss ==
    [][(/\ Obs.pc # "idle" /\ Distilling(Obs)
        /\ ObsRows(schematics) # {}
        /\ DocOf(ObsRows(schematics)) = NULL) =>
          /\ (Obs.pc = "probe" /\ req'["s1"].pc # "probe"
              /\ req'["s1"].probe # "err") =>
                /\ req'["s1"].probe = "miss"
                /\ req'["s1"].pc \in {"extract", "miss_files"}
          /\ (Obs.pc = "store" /\ req'["s1"].pc = "done"
              /\ req'["s1"].stored = "ok") =>
                /\ Cardinality(ObsRows(schematics')) = 1
                /\ {row.id : row \in ObsRows(schematics')}
                     = {row.id : row \in ObsRows(schematics)}
                /\ BoundOf(ObsRows(schematics')) = BoundOf(ObsRows(schematics))
                /\ DocOf(ObsRows(schematics')) = req'["s1"].distilled
                /\ req'["s1"].distilled # NULL]_vars
\* A distill request that missed on the hook's row of its key, ran the
\* pipeline and stored: the row holds the hook's blurb and the document.
C33_Witness ==
    /\ Obs.pc = "done" /\ Obs.handler = "distill_schematics"
    /\ Obs.probe = "miss" /\ Obs.invoked /\ Obs.stored = "ok"
    /\ Obs.status = "ok" /\ Obs.cached = FALSE
    /\ last.op = "store_schematic" /\ last.ok
    /\ last.commit_hash = Obs.commit
    /\ \E row \in ObsRows(schematics) :
          /\ row.id = last.value
          /\ row.blurb = "b1" /\ row.description = "desc1"
          /\ row.distilled_json = Obs.distilled

\* The parts of a call as the table holds them under the row id.
PartRows(sid, pm) ==
    {[schematic_id |-> sid, part_uuid |-> u, blurb |-> pm[u].blurb,
      properties |-> pm[u].properties] : u \in DOMAIN pm}

\* C34: no statement of a store_schematic transaction is visible before the
\* commit, and none after a failure: every step of a transaction other than
\* its successful commit, the failure of the schematic upsert, of a part
\* upsert or of the commit included, leaves both tables as they were; the
\* successful commit makes the row with the bound columns and every part of
\* the call visible in one step.
C34_StoreSchematicAtomic ==
    [][IF /\ \E w \in Writers : tx[w].pc = "parts" /\ tx'[w].pc = "idle"
          /\ last'.ok
       THEN /\ BoundOf(RowsAt(schematics', last'.repo_url, last'.commit_hash))
                 = [col \in SchematicColumns |-> last'.args[col]]
            /\ \A row \in RowsAt(schematics', last'.repo_url,
                                 last'.commit_hash) : row.id = last'.value
            /\ PartRows(last'.value, last'.args.parts) \subseteq parts'
       ELSE (\/ tx' # tx
             \/ (last'.op = "store_schematic" /\ ~last'.ok))
            => (schematics' = schematics /\ parts' = parts)]_vars
\* A transaction that failed in a part upsert, after its schematic upsert
\* had run: the key has no row and the table no part.
C34_Witness ==
    /\ last.op = "store_schematic" /\ ~last.ok /\ last.stage = "part"
    /\ RowsAt(schematics, last.repo_url, last.commit_hash) = {}
    /\ parts = {}
    /\ next_id > 1

(***************************************************************************)
(* SpecSnapshot: retrieve_schematic against store_schematic transactions   *)
(* on its key, and nothing else.                                           *)
(***************************************************************************)
NextSnapshot ==
    \/ \E w \in Writers, r \in StoredUrls, c \in TxCommits, a \in SchematicInputs :
           store_schematic_begin(w, r, c, a)
    \/ \E w \in Writers : store_schematic_part(w)
    \/ \E w \in Writers : store_schematic_commit(w)
    \/ \E r \in StoredUrls, c \in TxCommits : retrieve_schematic_row(r, c)
    \/ retrieve_schematic_parts

SpecSnapshot == Init /\ [][NextSnapshot]_vars

\* C35: the record a retrieve_schematic returns is the row and the parts of
\* one state of the tables: those the key had when the row query ran, or
\* those it has when the parts query runs.
C35_ConsistentSnapshot ==
    [][(/\ rd.pc = "parts" /\ rd'.pc = "idle"
        /\ last'.op = "retrieve_schematic" /\ last'.ok) =>
          \/ last'.value = FullSchematic(rd.sch, rd.parts_then)
          \/ \E row \in RowsAt(schematics, rd.sch.repo_url, rd.sch.commit_hash) :
                last'.value = FullSchematic(row, SelectParts(parts, row.id))]_vars

(***************************************************************************)
(* SpecHook: update_repo (controllers/hook.rs), one step per commit of its *)
(* loop, against pushes to the remote and another producer's               *)
(* store_schematic. The slot s1 holds the locals of the handler:           *)
(*   list      the commits get_schematic_commits returned                  *)
(*   todo      those the loop has not reached                              *)
(*   processed, errors   the counters of the response                     *)
(* and what is recorded about the request:                                 *)
(*   visited   per iteration the commit, whether its retrieve_schematic    *)
(*             ran, and how the iteration ended                            *)
(*   seen      the remote when the commits were listed                     *)
(*   rows0     the table when the request began                            *)
(*   after_clean   the request before it in the slot returned with an      *)
(*             empty errors list over the same remote, and no other        *)
(*             producer has written since that request began               *)
(*   disturbed another producer has written since this request began       *)
(***************************************************************************)
HookUrl == RepoUrl(FlowSlug)

\* get_schematic_commits: the walk from HEAD, filtered by
\* has_schematic_changes.
get_schematic_commits(head) ==
    SelectSeq(Revwalk(head), LAMBDA c : HasSchematicChanges(c))

\* The arguments generate_and_store_overview stores: date and message of the
\* commit, the blurb by whether any file changed, the description, and no
\* image, summary, overview or parts.
OverviewInput(changed) ==
    [HookInput EXCEPT !.blurb = IF changed # {} THEN "b1" ELSE "b0"]

\* A check that regenerates whatever is stored.
NeedsProcessing_Always(rows) == TRUE

\* existing.map(|s| s.blurb.is_none() || s.description.is_none())
\*         .unwrap_or(true)
NeedsProcessing(rows) ==
    \/ rows = {}
    \/ \E row \in rows : row.blurb = NULL \/ row.description = NULL

\* A loop that returns at the first failed commit.
OnError_Return(q, v) ==
    [q EXCEPT !.todo = <<>>, !.visited = Append(@, v),
              !.errors = Append(@, v.commit)]

\* Err(e) => errors.push(..), and the next commit.
OnError(q, v) ==
    [q EXCEPT !.todo = Tail(@), !.visited = Append(@, v),
              !.errors = Append(@, v.commit)]

update_repo(s) ==
    /\ Free(req[s])
    /\ UNCHANGED <<schematics, parts, next_id, tx, rd, last, acked, remote,
                   mirror, origin, acq, ws, job, call>>
    /\ LET before == cache[MirrorPath]
           after == CloneOrFetch(before, origin)
           clean == /\ req[s].pc = "done" /\ req[s].status = "ok"
                    /\ req[s].errors = <<>> /\ ~req[s].disturbed
                    /\ req[s].seen = origin
           q == [pc |-> "loop", handler |-> "update_repo", list |-> <<>>,
                 todo |-> <<>>, visited |-> <<>>, processed |-> 0,
                 errors |-> <<>>, seen |-> origin, rows0 |-> schematics,
                 after_clean |-> clean, disturbed |-> FALSE, status |-> NULL]
       IN \/ /\ UNCHANGED cache
             /\ req' = [req EXCEPT ![s] =
                          [q EXCEPT !.pc = "done", !.status = "error"]]
          \/ /\ CloneOrFetchErr(before, origin) # NULL
             /\ cache' = [cache EXCEPT ![MirrorPath] = after]
             /\ req' = [req EXCEPT ![s] =
                          [q EXCEPT !.pc = "done", !.status = "error"]]
          \/ /\ CloneOrFetchErr(before, origin) = NULL
             /\ cache' = [cache EXCEPT ![MirrorPath] = after]
             /\ req' = [req EXCEPT ![s] =
                          [q EXCEPT !.list = get_schematic_commits(after.head),
                                    !.todo = get_schematic_commits(after.head)]]

\* One iteration of the loop: retrieve_schematic(..).ok().flatten(), the
\* check, and generate_and_store_overview (get_changed_schematic_files, then
\* store_schematic) when it says so.
update_repo_commit(s) ==
    /\ req[s].pc = "loop"
    /\ req[s].todo # <<>>
    /\ UNCHANGED <<parts, tx, rd, last, acked, remote, mirror, origin, acq,
                   ws, job, call>>
    /\ LET q == req[s]
           c == Head(q.todo)
           rows == RowsAt(schematics, HookUrl, c)
           after == CloneOrFetch(cache[MirrorPath], origin)
           acquired == CloneOrFetchErr(cache[MirrorPath], origin) = NULL
       IN \E probe \in {"ok", "err"} :
            LET existing == IF probe = "ok" THEN rows ELSE {}
                v(outcome) == [commit |-> c, probe |-> probe,
                               outcome |-> outcome]
            IN IF ~NeedsProcessing(existing)
               THEN /\ UNCHANGED <<schematics, next_id, cache>>
                    /\ req' = [req EXCEPT ![s] =
                                 [q EXCEPT !.todo = Tail(@),
                                           !.visited = Append(@, v("skipped"))]]
               ELSE \/ /\ UNCHANGED <<schematics, next_id, cache>>
                       /\ req' = [req EXCEPT ![s] = OnError(q, v("error"))]
                    \/ /\ acquired
                       /\ cache' = [cache EXCEPT ![MirrorPath] = after]
                       /\ UNCHANGED <<schematics, next_id>>
                       /\ req' = [req EXCEPT ![s] = OnError(q, v("error"))]
                    \/ /\ acquired
                       /\ CanUpsert(HookUrl, c)
                       /\ cache' = [cache EXCEPT ![MirrorPath] = after]
                       /\ schematics' =
                             UpsertSchematic(schematics, next_id, HookUrl, c,
                                             OverviewInput(ChangedPaths(c)))
                       /\ next_id' = NextIdAfter(HookUrl, c)
                       /\ req' = [req EXCEPT ![s] =
                                    [q EXCEPT !.todo = Tail(@),
                                              !.visited = Append(@, v("processed")),
                                              !.processed = @ + 1]]

\* Ok(Json(HookUpdateResponse { repo, processed, errors }))
update_repo_respond(s) ==
    /\ req[s].pc = "loop"
    /\ req[s].todo = <<>>
    /\ req' = [req EXCEPT ![s] = [@ EXCEPT !.pc = "done", !.status = "ok"]]
    /\ UNCHANGED <<schematics, parts, next_id, tx, rd, last, acked, remote,
                   mirror, mirrorvars>>

\* Another producer stores an image, without blurb or description, under the
\* key of a commit.
producer_store(c) ==
    /\ store_schematic_ok(HookUrl, c, ImageInput)
    /\ req' = [s \in Slots |->
                 IF req[s].pc = "idle" THEN req[s]
                 ELSE [req[s] EXCEPT !.disturbed = TRUE]]
    /\ UNCHANGED <<remote, mirror, mirrorvars>>

\* The commits the other producer stores under.
ProducerCommits == {"c1"}

NextHook ==
    \/ origin_push
    \/ update_repo("s1")
    \/ update_repo_commit("s1")
    \/ update_repo_respond("s1")
    \/ \E c \in ProducerCommits : producer_store(c)

SpecHook == Init /\ [][NextHook]_vars

\* The iteration the step has just added to visited.
Visit == req'["s1"].visited[Len(req'["s1"].visited)]

\* C36: an update_repo that follows, over the same remote and with no other
\* producer writing, an update_repo that returned with an empty errors
\* list, and whose retrieve_schematic calls all ran, reports processed = 0
\* and no error and leaves the table as it found it; and an iteration whose
\* retrieve_schematic ran and found blurb and description stored is a skip
\* that writes nothing.
C36_HookReentrant ==
    [][/\ (/\ Obs.pc = "loop" /\ req'["s1"].pc = "done"
           /\ req'["s1"].status = "ok"
           /\ Obs.after_clean /\ ~Obs.disturbed /\ Obs.seen = origin
           /\ \A i \in 1..Len(Obs.visited) : Obs.visited[i].probe = "ok")
          => /\ req'["s1"].processed = 0
             /\ req'["s1"].errors = <<>>
             /\ schematics' = Obs.rows0
       /\ (/\ Obs.pc = "loop" /\ req'["s1"].pc = "loop"
           /\ Len(req'["s1"].visited) > Len(Obs.visited)
           /\ Visit.probe = "ok"
           /\ ~NeedsProcessing(RowsAt(schematics, HookUrl, Visit.commit)))
          => /\ Visit.outcome = "skipped"
             /\ schematics' = schematics]_vars
\* The second of two update_repo calls over three matching commits: nothing
\* processed, the three rows of the first call in place.
C36_Witness ==
    /\ Obs.pc = "done" /\ Obs.status = "ok" /\ Obs.after_clean
    /\ ~Obs.disturbed
    /\ Len(Obs.list) = 3 /\ Len(Obs.visited) = 3
    /\ \A i \in 1..3 : Obs.visited[i].outcome = "skipped"
    /\ Obs.processed = 0 /\ Obs.errors = <<>>
    /\ Cardinality(schematics) = 3 /\ schematics = Obs.rows0

\* The number of iterations of a request that ended in the outcome.
Outcomes(q, outcome) ==
    Cardinality({i \in 1..Len(q.visited) : q.visited[i].outcome = outcome})

\* The tally of update_repo: the commits visited so far followed by those
\* still to visit are the matching commits in list order, each once; every
\* visit ended as skipped, processed or error; processed counts the visits
\* that stored and errors lists the commits whose visit failed, in order.
C37_Tally ==
    (Obs.pc # "idle" /\ Obs.status # "error") =>
        /\ [i \in 1..Len(Obs.visited) |-> Obs.visited[i].commit] \o Obs.todo
             = Obs.list
        /\ \A i, j \in 1..Len(Obs.list) : Obs.list[i] = Obs.list[j] => i = j
        /\ \A i \in 1..Len(Obs.visited) :
              Obs.visited[i].outcome \in {"skipped", "processed", "error"}
        /\ Obs.processed = Outcomes(Obs, "processed")
        /\ Obs.errors =
              [i \in 1..Len(Obs.errors) |->
                 (SelectSeq(Obs.visited,
                            LAMBDA v : v.outcome = "error"))[i].commit]
        /\ Len(Obs.errors) = Outcomes(Obs, "error")
        /\ Obs.processed + Len(Obs.errors) <= Len(Obs.list)
        /\ Obs.pc = "done" => Obs.todo = <<>>
\* C37: in update_repo every matching commit is visited once, in list order
\* (the tally holds throughout and nothing is left to visit when the
\* response is built), each visit takes the head of the remaining list and
\* ends in exactly one outcome: skipped, when the stored record has blurb and
\* description, which writes and counts nothing; processed, which adds one
\* to processed; or error, which appends the commit to errors and goes on
\* to the next commit. So processed plus the number of errors is at most
\* the number of matching commits.
C37_EveryCommitOnce ==
    /\ []C37_Tally
    /\ [][(/\ Obs.pc = "loop" /\ Obs'.pc = "loop"
            /\ Len(Obs'.visited) = Len(Obs.visited) + 1)
           => LET v == Obs'.visited[Len(Obs'.visited)]
                  both == ~NeedsProcessing(RowsAt(schematics, HookUrl, v.commit))
              IN /\ v.commit = Head(Obs.todo)
                 /\ v.outcome = "skipped" <=> (v.probe = "ok" /\ both)
                 /\ v.outcome = "skipped" =>
                       /\ schematics' = schematics
                       /\ Obs'.processed = Obs.processed
                       /\ Obs'.errors = Obs.errors
                 /\ v.outcome = "processed" =>
                       /\ Obs'.processed = Obs.processed + 1
                       /\ Obs'.errors = Obs.errors
                 /\ v.outcome = "error" =>
                       /\ Obs'.processed = Obs.processed
                       /\ Obs'.errors = Append(Obs.errors, v.commit)]_vars
\* A call over three matching commits whose first commit failed and whose
\* later commits were processed.
C37_Witness ==
    /\ Obs.pc = "done" /\ Obs.status = "ok"
    /\ Len(Obs.list) = 3
    /\ Obs.visited[1].outcome = "error"
    /\ Obs.visited[2].outcome = "processed"
    /\ Obs.visited[3].outcome = "processed"
    /\ Obs.processed = 2 /\ Obs.errors = <<Obs.list[1]>>

\* The operations of SpecScan that have been applied to a commit.
ScanOps ==
    {"has_schematic_changes", "get_changed_schematic_files",
     "get_schematic_files"}

DataPrefix == <<"d", "a", "t", "a", ":", " ">>
DoneData == <<"[", "D", "O", "N", "E", "]">>

\* char::is_whitespace, for the characters of the bodies.
Whitespace == {" ", "CR", "LF"}

\* s.starts_with(prefix)
starts_with(s, prefix) ==
    /\ Len(s) >= Len(prefix)
    /\ SubSeq(s, 1, Len(prefix)) = prefix

\* s.trim()
RECURSIVE trim(_)
trim(s) ==
    IF s = <<>> THEN s
    ELSE IF Head(s) \in Whitespace THEN trim(Tail(s))
    ELSE IF s[Len(s)] \in Whitespace THEN trim(SubSeq(s, 1, Len(s) - 1))
    ELSE s

\* buffer.find('\n'): the position of the first line feed, 0 for None.
find(buffer) ==
    IF \E i \in 1..Len(buffer) : buffer[i] = "LF"
    THEN CHOOSE i \in 1..Len(buffer) :
            /\ buffer[i] = "LF"
            /\ \A j \in 1..(i - 1) : buffer[j] # "LF"
    ELSE 0

\* serde_json::from_str::<StreamChunk>(data) and the content of the first
\* choice's delta.
from_str_StreamChunk(data) ==
    IF /\ Len(data) >= 2 /\ data[1] = "{" /\ data[Len(data)] = "}"
       /\ \A i \in 2..(Len(data) - 1) : data[i] \notin {"{", "}"}
    THEN [ok |-> TRUE, some |-> Len(data) > 2,
          content |-> SubSeq(data, 2, Len(data) - 1)]
    ELSE [ok |-> FALSE, some |-> FALSE, content |-> <<>>]

\* The items of the stream: Ok(content) and Err(e).
OkItem(content) == [ok |-> TRUE, content |-> content]
ErrItem == [ok |-> FALSE, content |-> <<"e">>]

\* buffer[..line_end].trim()
LineOf(buffer, line_end) == trim(SubSeq(buffer, 1, line_end - 1))

\* What one complete line does: ends the stream, yields a content or
\* nothing (an empty line, a line without the prefix, a document that does
\* not parse or has no content).
HandleLine(line) ==
    IF line = <<>> \/ ~starts_with(line, DataPrefix)
    THEN [kind |-> "none", content |-> <<>>]
    ELSE LET data == SubSeq(line, Len(DataPrefix) + 1, Len(line))
         IN IF data = DoneData THEN [kind |-> "done", content |-> <<>>]
            ELSE IF from_str_StreamChunk(data).ok /\ from_str_StreamChunk(data).some
                 THEN [kind |-> "yield", content |-> from_str_StreamChunk(data).content]
            ELSE [kind |-> "none", content |-> <<>>]

\* The bodies: two contents, the second with a two-byte character and a
\* CRLF line end, an empty line between them, [DONE] and a line after it;
\* and a comment line, a document without content, one that does not
\* parse, and a last line that is not terminated.
DataLine(data, eol) == DataPrefix \o data \o eol
Bodies ==
    { DataLine(<<"{", "h", "}">>, <<"LF">>) \o <<"LF">>
        \o DataLine(<<"{", "xC3", "xA9", "}">>, <<"CR", "LF">>)
        \o DataLine(DoneData, <<"LF">>) \o DataLine(<<"{", "h", "}">>, <<"LF">>),
      <<":", "c", "LF">> \o DataLine(<<"{", "}">>, <<"LF">>)
        \o DataLine(<<"}">>, <<"LF">>) \o DataLine(<<"{", "i", "}">>, <<"LF">>)
        \o DataLine(<<"{", "h", "}">>, <<>>) }

\* The transport cuts a body in at most MaxCuts places; in at most LiveCuts
\* places where the question is whether the response ends.
MaxCuts == 2
LiveCuts == 1
RECURSIVE CutSets(_, _)
CutSets(n, k) ==
    IF k = 0 THEN {{}}
    ELSE CutSets(n, k - 1)
           \cup {c \cup {i} : c \in CutSets(n, k - 1), i \in 1..(n - 1)}

\* The chunks of a body cut after the bytes in cuts.
RECURSIVE Split(_, _, _)
Split(bytes, cuts, start) ==
    LET later == {c \in cuts : c >= start}
    IN IF later = {} THEN <<SubSeq(bytes, start, Len(bytes))>>
       ELSE LET c == CHOOSE x \in later : \A y \in later : x <= y
            IN <<SubSeq(bytes, start, c)>> \o Split(bytes, cuts, c + 1)

\* byte_stream: Ok(bytes) for each chunk; a transport error (the timeout of
\* the client among them) ends it.
OkChunk(bytes) == [ok |-> TRUE, bytes |-> bytes]
ErrChunk == [ok |-> FALSE, bytes |-> <<>>]
ChunkResults(bytes, cuts) ==
    LET chunks == Split(bytes, cuts, 1)
    IN [i \in 1..Len(chunks) |-> OkChunk(chunks[i])]
WithError(results) ==
    {results} \cup {Append(SubSeq(results, 1, k), ErrChunk) :
                      k \in 0..Len(results)}
ByteStreamsOf(b, k) ==
    UNION {WithError(ChunkResults(b, cuts)) : cuts \in CutSets(Len(b), k)}
ByteStreams(k) == UNION {ByteStreamsOf(b, k) : b \in Bodies}

\* The bytes of the chunks of a byte stream, joined.
RECURSIVE Joined(_)
Joined(results) ==
    IF results = <<>> THEN <<>>
    ELSE Head(results).bytes \o Joined(Tail(results))

StreamHandlers == {"chat_stream", "selection_stream"}

IsStream(c) == c.op = "stream"

\* No request yet.
IdleStream ==
    [op |-> "stream", handler |-> NULL, pc |-> "idle", sent |-> <<>>,
     byte_stream |-> <<>>, buffer |-> <<>>, out |-> <<>>, events |-> <<>>]

InitStream ==
    /\ schematics = {}
    /\ parts = {}
    /\ next_id = 1
    /\ tx = [w \in Writers |-> IdleTx]
    /\ rd = IdleRd
    /\ last = NoCall
    /\ acked = {}
    /\ req = [s \in Slots |-> IdleReq]
    /\ remote = "c1"
    /\ mirror = NULL
    /\ origin = [default |-> "main",
                 tips |-> [main |-> "c1", master |-> NULL, dev |-> "b1"]]
    /\ cache = [p \in {MirrorPath} |-> NoDir]
    /\ acq = [t \in Tasks |-> IdleAcq]
    /\ ws = [k \in {workspace_path(MirrorSlug, c) : c \in WorkCommits} |-> NoDir]
    /\ job = [t \in Tasks |-> IdleJob]
    /\ call = IdleStream

\* chat_completion_stream(&chat_request).await returned the stream: the
\* upstream answered with a success status and a body that the transport
\* will deliver in some chunks, cut in at most ncuts places.
open_stream(ncuts) ==
    /\ call.pc = "idle"
    /\ ScanFrame
    /\ \E h \in StreamHandlers, bs \in ByteStreams(ncuts) :
          call' = [IdleStream EXCEPT !.handler = h, !.pc = "next",
                                    !.sent = bs, !.byte_stream = bs]

\* format!("[ERROR: {}]", e)
ErrorData(e) == <<"[", "E", "R", "R", "O", "R", ":", " ">> \o e \o <<"]">>

\* byte_stream.next().await: a chunk is appended to the buffer, decoded; a
\* transport error is yielded and ends the stream, and the SSE stream
\* forwards it as an [ERROR: ..] event and leaves its loop; the end of the
\* body ends both loops.
byte_stream_next ==
    /\ call.pc = "next"
    /\ ScanFrame
    /\ IF call.byte_stream = <<>>
       THEN call' = [call EXCEPT !.pc = "break"]
       ELSE LET chunk_result == Head(call.byte_stream)
            IN IF chunk_result.ok
               THEN call' = [call EXCEPT
                        !.pc = "lines",
                        !.byte_stream = Tail(@),
                        !.buffer = @ \o from_utf8_lossy(chunk_result.bytes)]
               ELSE call' = [call EXCEPT
                        !.pc = "break",
                        !.byte_stream = Tail(@),
                        !.out = Append(@, ErrItem),
                        !.events = Append(@, ErrorData(ErrItem.content))]

\* One turn of `while let Some(line_end) = buffer.find('\n')`: a content
\* that is yielded is forwarded as a data event; [DONE] ends the stream.
process_line ==
    /\ call.pc = "lines"
    /\ ScanFrame
    /\ \E line_end \in {find(call.buffer)} :
       \E h \in {HandleLine(LineOf(call.buffer, line_end))} :
       \E rest \in {SubSeq(call.buffer, line_end + 1, Len(call.buffer))} :
          call' =
             CASE line_end = 0 -> [call EXCEPT !.pc = "next"]
               [] line_end # 0 /\ h.kind = "done" ->
                    [call EXCEPT !.pc = "break", !.buffer = rest]
               [] line_end # 0 /\ h.kind = "yield" ->
                    [call EXCEPT !.buffer = rest,
                                 !.out = Append(@, OkItem(h.content)),
                                 !.events = Append(@, h.content)]
               [] line_end # 0 /\ h.kind = "none" ->
                    [call EXCEPT !.buffer = rest]

\* A stream that closes without the last event.
send_done_NoEvent ==
    /\ call.pc = "break"
    /\ ScanFrame
    /\ call' = [call EXCEPT !.pc = "closed"]

\* yield Ok(Event::default().data("[DONE]")), after the loop.
send_done ==
    /\ call.pc = "break"
    /\ ScanFrame
    /\ call' = [call EXCEPT !.pc = "closed", !.events = Append(@, DoneData)]

\* The client goes away: the response body is dropped where it is.
client_disconnect ==
    /\ call.pc \in {"next", "lines", "break"}
    /\ ScanFrame
    /\ call' = [call EXCEPT !.pc = "dropped"]

NextStream ==
    \/ open_stream(MaxCuts)
    \/ byte_stream_next
    \/ process_line
    \/ send_done
    \/ client_disconnect

SpecStream == InitStream /\ [][NextStream]_vars

\* The body is polled while the client is there, and byte_stream.next()
\* resolves: with a chunk, with the end of the body, or with the error of
\* the client's timeout.
StreamFairness == WF_vars(byte_stream_next \/ process_line \/ send_done)

NextStreamLive ==
    \/ open_stream(LiveCuts)
    \/ byte_stream_next
    \/ process_line
    \/ send_done
    \/ client_disconnect

SpecStreamLive == InitStream /\ [][NextStreamLive]_vars /\ StreamFairness

\* What the stream yields for a text that arrives in one piece.
RECURSIVE Yielded(_)
Yielded(buffer) ==
    LET line_end == find(buffer)
        h == HandleLine(LineOf(buffer, line_end))
        rest == SubSeq(buffer, line_end + 1, Len(buffer))
    IN IF line_end = 0 \/ h.kind = "done" THEN <<>>
       ELSE IF h.kind = "yield" THEN <<OkItem(h.content)>> \o Yielded(rest)
       ELSE Yielded(rest)

\* Whether the text has a [DONE] line.
RECURSIVE Returned(_)
Returned(buffer) ==
    LET line_end == find(buffer)
    IN /\ line_end # 0
       /\ \/ HandleLine(LineOf(buffer, line_end)).kind = "done"
          \/ Returned(SubSeq(buffer, line_end + 1, Len(buffer)))

\* The byte stream had a transport error.
Failed(results) == \E i \in 1..Len(results) : ~results[i].ok

\* C39 as stated: when chat_completion_stream has ended it has yielded the
\* contents of the data lines of the text the upstream sent, in order, up
\* to the [DONE] line, then the transport error if there was one and no
\* [DONE] line before it, and nothing else: the same sequence for every
\* way the text was cut into chunks.
C39_ChunkingInvariant ==
    (IsStream(call) /\ call.pc \in {"break", "closed"}) =>
        LET text == from_utf8_lossy(Joined(call.sent))
        IN call.out =
              Yielded(text) \o (IF Failed(call.sent) /\ ~Returned(text)
                                THEN <<ErrItem>> ELSE <<>>)

\* The data events of a response that are [DONE] events, [ERROR: ..] events.
DoneEvents(events) == {i \in 1..Len(events) : events[i] = DoneData}
ErrorEvents(events) ==
    {i \in 1..Len(events) :
        starts_with(events[i], <<"[", "E", "R", "R", "O", "R", ":", " ">>)}

\* The data events of a response so far: at most one [DONE] and nothing
\* after it; one [ERROR: ..] event if the upstream stream yielded an error
\* and none otherwise, and no event but [DONE] after it; the events before
\* these are the contents the upstream stream yielded, in order.
C40_Shape ==
    IsStream(call) =>
        LET events == call.events
            contents == SelectSeq(call.out, LAMBDA item : item.ok)
        IN /\ Cardinality(DoneEvents(events)) <= 1
           /\ DoneEvents(events) \subseteq {Len(events)}
           /\ Cardinality(ErrorEvents(events)) =
                 IF \E i \in 1..Len(call.out) : ~call.out[i].ok THEN 1 ELSE 0
           /\ \A i \in ErrorEvents(events) :
                 \A j \in (i + 1)..Len(events) : events[j] = DoneData
           /\ \A i \in 1..Len(contents) : events[i] = contents[i].content
           /\ call.pc = "closed" <=> DoneEvents(events) # {}

\* C40: every SSE response of chat_stream and selection_stream that the
\* client stays for ends, and ends with one [DONE] data event, its last;
\* when the upstream stream yields an error, one [ERROR: ..] event is
\* emitted, no content event follows it and [DONE] is emitted after it.
C40_EndsWithDone ==
    /\ []C40_Shape
    /\ (IsStream(call) /\ call.pc # "idle")
          ~> (IsStream(call) /\ call.pc \in {"closed", "dropped"})
    /\ [](IsStream(call) /\ call.pc = "closed"
            => /\ call.events # <<>>
               /\ call.events[Len(call.events)] = DoneData
               /\ Cardinality(DoneEvents(call.events)) = 1)
\* A response whose upstream failed after a content: the content, the
\* [ERROR: ..] event, then [DONE].
C40_Witness ==
    /\ IsStream(call) /\ call.pc = "closed"
    /\ call.handler = "selection_stream"
    /\ call.events = << <<"h">>, ErrorData(<<"e">>), DoneData >>

====
